---- MODULE Spec2Model ----
(***************************************************************************)
(* A model of the ScryVault collection page: the entity mapper             *)
(* (lib/mappers.ts), the persistence gateway (services/book-service.ts),   *)
(* and the collection view state (the collection page component) with its  *)
(* asynchronous handlers.                                                  *)
(*                                                                         *)
(* Strings whose characters matter (author names, titles, ISBNs) are       *)
(* sequences of one-character strings.  A JavaScript object is a function  *)
(* from its keys to values; a key whose value is undefined is a key that   *)
(* is not in the DOMAIN.  null is the value Null for numbers.              *)
(***************************************************************************)
EXTENDS Integers, Sequences, FiniteSets, Bags, TLC

VARIABLES
    dbBooks,         \* table "books": id -> row, or NoRow
    dbCopies,        \* table "inventory": id -> row, or NoRow
    books,           \* useState<Book[]>: the local list, copies nested
    isLoading,       \* useState(true)
    searchTerm,      \* useState("")
    sortOption,      \* useState("manual")
    showListedOnly,  \* useState(false)
    ui,              \* modal state: isAddCopyOpen, isDuplicateAdd, ...
    ids,             \* the next id the database and Date.now() hand out
    calls,           \* handler invocations suspended at an await (a bag)
    toasts,          \* the notifications of the last step that raised any
    events,          \* how many user events the page has handled
    last,            \* the handler step taken last, with its arguments
    arg,             \* pure-function harness: the value drawn
    res,             \* pure-function harness: the value computed
    pc               \* pure-function harness: position

vars == <<dbBooks, dbCopies, books, isLoading, searchTerm, sortOption,
          showListedOnly, ui, ids, calls, toasts, events, last, arg, res, pc>>

storeVars == <<dbBooks, dbCopies, ids>>
viewVars == <<books, isLoading, searchTerm, sortOption, showListedOnly, ui>>
asyncVars == <<calls, toasts, events, last>>
pureVars == <<arg, res, pc>>

\* null of a number-valued field (year, purchasePrice, marketPrice)
Null == -1

-----------------------------------------------------------------------------
(* Generic sequence helpers (Array.prototype.map / filter / findIndex).    *)

SeqFilter(s, Keep(_)) == SelectSeq(s, Keep)

SeqMap(s, F(_)) == [i \in 1..Len(s) |-> F(s[i])]

Range(s) == {s[i] : i \in 1..Len(s)}

\* all sequences over S of length at most n
SeqsUpTo(S, n) == UNION {[1..k -> S] : k \in 0..n}

-----------------------------------------------------------------------------
(* String primitives: String.prototype.split(","), trim, Array.join(", ")  *)

IsSpace(c) == c = " "

RECURSIVE TrimLeft(_)
TrimLeft(s) ==
    IF s # <<>> /\ IsSpace(Head(s)) THEN TrimLeft(Tail(s)) ELSE s

RECURSIVE TrimRight(_)
TrimRight(s) ==
    IF s # <<>> /\ IsSpace(s[Len(s)]) THEN TrimRight(SubSeq(s, 1, Len(s) - 1))
    ELSE s

Trim(s) == TrimRight(TrimLeft(s))

\* s.split(sep) for a one-character separator: always at least one piece
RECURSIVE SplitAcc(_, _, _)
SplitAcc(s, sep, cur) ==
    IF s = <<>> THEN <<cur>>
    ELSE IF Head(s) = sep THEN <<cur>> \o SplitAcc(Tail(s), sep, <<>>)
         ELSE SplitAcc(Tail(s), sep, Append(cur, Head(s)))

Split(s, sep) == SplitAcc(s, sep, <<>>)

\* list.join(sep): "" for the empty list
RECURSIVE Join(_, _)
Join(list, sep) ==
    IF list = <<>> THEN <<>>
    ELSE IF Len(list) = 1 THEN list[1]
         ELSE list[1] \o sep \o Join(Tail(list), sep)

CommaSpace == <<",", " ">>

-----------------------------------------------------------------------------
(* Entity mapper: lib/mappers.ts                                           *)

\* obj[key], where a missing key reads as undefined: callers test Has first
Has(obj, key) == key \in DOMAIN obj

\* the row's authors column to the authors array
\*   row.authors ? row.authors.split(",").map(s => s.trim()).filter(Boolean) : []
AuthorsNoTrim(str) ==
    IF str = <<>> THEN <<>>
    ELSE SeqFilter(Split(str, ","), LAMBDA s : s # <<>>)

AuthorsFromDb(str) ==
    IF str = <<>> THEN <<>>
    ELSE SeqFilter(SeqMap(Split(str, ","), Trim), LAMBDA s : s # <<>>)

\* Array.isArray(book.authors) ? book.authors.join(", ") : undefined
AuthorsToDb(list) == Join(list, CommaSpace)

BookKeys == {"id", "title", "authors", "year", "publisher", "binding",
             "isbn", "coverUrl", "sortIndex"}

DbKeyOf(k) ==
    CASE k = "coverUrl" -> "cover_image_url"
      [] k = "sortIndex" -> "sort_index"
      [] OTHER -> k

BookKeyOf(k) ==
    CASE k = "cover_image_url" -> "coverUrl"
      [] k = "sort_index" -> "sortIndex"
      [] OTHER -> k

\* bookToDb: every field renamed, authors joined, undefined keys deleted
bookToDb(book) ==
    LET present == {k \in BookKeys : Has(book, k)}
    IN  [dk \in {DbKeyOf(k) : k \in present} |->
            IF dk = "authors" THEN AuthorsToDb(book.authors)
            ELSE book[BookKeyOf(dk)]]

\* dbToBook: every column renamed, authors split, copies initialised empty
dbToBook(row) ==
    LET present == {k \in BookKeys : Has(row, DbKeyOf(k))}
    IN  [k \in present \cup {"authors", "copies"} |->
            IF k = "copies" THEN <<>>
            ELSE IF k = "authors"
                 THEN IF Has(row, "authors") THEN AuthorsFromDb(row.authors)
                      ELSE <<>>
                 ELSE row[DbKeyOf(k)]]

-----------------------------------------------------------------------------
(* Mapper harness: a Book is drawn, mapped to a row and mapped back.       *)

MaxNameLen == 2
MaxAuthors == 2

AuthorChars == {"a", " ", ","}
AuthorNames == SeqsUpTo(AuthorChars, MaxNameLen)
AuthorLists == SeqsUpTo(AuthorNames, MaxAuthors)

SampleCopy == [id |-> 1, bookId |-> 1, sortIndex |-> 0, isListed |-> FALSE]

\* the fields the mapper passes through: year (null or a number), sortIndex,
\* and copies (optional in the Book type: absent, empty, or one copy)
MapperVariants ==
    {[year |-> Null, sortIndex |-> 0, copies |-> <<>>, hasCopies |-> FALSE],
     [year |-> 1937, sortIndex |-> 1, copies |-> <<>>, hasCopies |-> TRUE],
     [year |-> 1937, sortIndex |-> 0, copies |-> <<SampleCopy>>,
      hasCopies |-> TRUE]}

\* Books of the shape the Book type declares: every key but copies present
MapperBooks ==
    {[k \in BookKeys \cup (IF v.hasCopies THEN {"copies"} ELSE {}) |->
        CASE k = "id" -> 1
          [] k = "title" -> <<"t">>
          [] k = "authors" -> a
          [] k = "year" -> v.year
          [] k = "publisher" -> <<"p">>
          [] k = "binding" -> "Paperback"
          [] k = "isbn" -> <<"1">>
          [] k = "coverUrl" -> <<"u">>
          [] k = "sortIndex" -> v.sortIndex
          [] k = "copies" -> v.copies] :
        a \in AuthorLists, v \in MapperVariants}

NoValue == [none |-> TRUE]

MapperInit ==
    /\ arg \in MapperBooks
    /\ res = NoValue
    /\ pc = "book"
    /\ dbBooks = <<>> /\ dbCopies = <<>> /\ books = <<>>
    /\ isLoading = FALSE /\ searchTerm = <<>> /\ sortOption = "manual"
    /\ showListedOnly = FALSE /\ ui = NoValue
    /\ ids = NoValue /\ calls = EmptyBag /\ toasts = <<>> /\ events = 0 /\ last = NoValue

MapBookToDb ==
    /\ pc = "book"
    /\ res' = bookToDb(arg)
    /\ pc' = "row"
    /\ UNCHANGED <<arg, storeVars, viewVars, asyncVars>>

MapDbToBook ==
    /\ pc = "row"
    /\ res' = dbToBook(res)
    /\ pc' = "back"
    /\ UNCHANGED <<arg, storeVars, viewVars, asyncVars>>

MapperNext == MapBookToDb \/ MapDbToBook

SpecMapper == MapperInit /\ [][MapperNext]_vars

\* a name as the form boundary and dbToBook produce it: trimmed, not blank
TrimmedName(n) == n # <<>> /\ ~IsSpace(n[1]) /\ ~IsSpace(n[Len(n)])

WellFormedBook(b) == \A i \in 1..Len(b.authors) : TrimmedName(b.authors[i])

NoCommaInAuthors(b) ==
    \A i \in 1..Len(b.authors) : "," \notin Range(b.authors[i])

-----------------------------------------------------------------------------
(* Financial derivation: SortableCopyItem.financialMetrics (list view) and *)
(* AddCopyModal.financialMetrics (modal).  Prices are whole numbers; a     *)
(* quotient is kept exact as a fraction in lowest terms, sign on top.      *)

Abs(n) == IF n < 0 THEN -n ELSE n

RECURSIVE GCD(_, _)
GCD(a, b) == IF b = 0 THEN a ELSE GCD(b, a % b)

\* the number n / d, d > 0
Frac(n, d) ==
    LET g == GCD(Abs(n), d)
    IN  IF n = 0 THEN [num |-> 0, den |-> 1]
        ELSE [num |-> n \div g, den |-> d \div g]

\* Number.prototype.toFixed(0): nearest integer, a tie away from zero
ToFixed0(q) ==
    LET a == Abs(q.num)
        r == (2 * a + q.den) \div (2 * q.den)
    IN  IF q.num < 0 THEN -r ELSE r

\* roi with the guard on the market price instead of the purchase price
RoiGuardOnMarket(p, m) == IF m > 0 THEN Frac((m - p) * 100, p) ELSE NoValue

Pnl(p, m) == Frac(m - p, 1)

\* m > 0 ? (pnl / m) * 100 : 0
Margin(p, m) == IF m > 0 THEN Frac((m - p) * 100, m) ELSE Frac(0, 1)

\* p > 0 ? (pnl / p) * 100 : null
Roi(p, m) == IF p > 0 THEN Frac((m - p) * 100, p) ELSE NoValue

NoMetrics == [pnl |-> NoValue, margin |-> NoValue, roi |-> NoValue]

\* the list view: p and m are the copy's numbers, null or undefined is absent
financialMetrics(p, m) ==
    IF p = Null \/ m = Null THEN NoMetrics
    ELSE [pnl |-> Pnl(p, m), margin |-> Margin(p, m), roi |-> Roi(p, m)]

Digits == <<"0", "1", "2", "3", "4", "5", "6", "7", "8", "9">>

\* String(n) for a whole number n >= 0
RECURSIVE NumToString(_)
NumToString(n) ==
    IF n < 10 THEN <<Digits[n + 1]>>
    ELSE Append(NumToString(n \div 10), Digits[(n % 10) + 1])

DigitValue(c) == CHOOSE d \in 0..9 : Digits[d + 1] = c

IsDigit(c) == \E d \in 0..9 : Digits[d + 1] = c

NaN == -2

\* parseFloat(str) on a string of digits: the longest numeric prefix, NaN
\* when there is none
RECURSIVE ParseDigits(_, _)
ParseDigits(str, acc) ==
    IF str = <<>> \/ ~IsDigit(Head(str)) THEN acc
    ELSE ParseDigits(Tail(str), 10 * acc + DigitValue(Head(str)))

parseFloat(str) ==
    IF str = <<>> \/ ~IsDigit(Head(str)) THEN NaN ELSE ParseDigits(str, 0)

\* the modal's reset(): a price field is String(price), or "" when absent
PriceField(price) == IF price = Null THEN <<>> ELSE NumToString(price)

\* the modal: p and m are parsed from the watched form strings
modalFinancialMetrics(purchaseField, marketField) ==
    LET p == parseFloat(purchaseField)
        m == parseFloat(marketField)
    IN  IF p = NaN \/ m = NaN THEN NoMetrics
        ELSE [pnl |-> Pnl(p, m), margin |-> Margin(p, m), roi |-> Roi(p, m)]

MaxPrice == 15

Prices == {Null} \cup 0..MaxPrice

FinInit ==
    /\ arg \in [purchasePrice : Prices, marketPrice : Prices]
    /\ res = NoValue
    /\ pc = "copy"
    /\ dbBooks = <<>> /\ dbCopies = <<>> /\ books = <<>>
    /\ isLoading = FALSE /\ searchTerm = <<>> /\ sortOption = "manual"
    /\ showListedOnly = FALSE /\ ui = NoValue
    /\ ids = NoValue /\ calls = EmptyBag /\ toasts = <<>> /\ events = 0 /\ last = NoValue

\* the copy is rendered in the list
RenderCopyItem ==
    /\ pc = "copy"
    /\ res' = [view |-> financialMetrics(arg.purchasePrice, arg.marketPrice)]
    /\ pc' = "rendered"
    /\ UNCHANGED <<arg, storeVars, viewVars, asyncVars>>

\* the copy is opened in the edit modal: the form is reset from the copy
OpenEditCopyMetrics ==
    /\ pc = "rendered"
    /\ res' = [view |-> res.view,
               modal |-> modalFinancialMetrics(PriceField(arg.purchasePrice),
                                               PriceField(arg.marketPrice))]
    /\ pc' = "editing"
    /\ UNCHANGED <<arg, storeVars, viewVars, asyncVars>>

FinNext == RenderCopyItem \/ OpenEditCopyMetrics

SpecFin == FinInit /\ [][FinNext]_vars

\* q is the number n / d
IsQuotient(q, n, d) == q # NoValue /\ q.den > 0 /\ q.num * d = n * q.den

\* C9: with p or m absent, profit, margin and ROI are absent; otherwise
\* profit = m - p, margin = profit/m*100 (0 when m = 0), ROI = profit/p*100
\* (absent when p = 0); p=10, m=15 gives 5, 33 rounded, 50; p=0, m=10 gives
\* margin 100 and no ROI; the list view and the modal agree.
C9_FinancialDerivation ==
    pc = "editing" =>
        LET p == arg.purchasePrice
            m == arg.marketPrice
            v == res.view
        IN  /\ (p = Null \/ m = Null) => v = NoMetrics
            /\ (p # Null /\ m # Null) =>
                /\ IsQuotient(v.pnl, m - p, 1)
                /\ m > 0 => IsQuotient(v.margin, (m - p) * 100, m)
                /\ m = 0 => IsQuotient(v.margin, 0, 1)
                /\ p > 0 => IsQuotient(v.roi, (m - p) * 100, p)
                /\ p = 0 => v.roi = NoValue
            /\ (p = 10 /\ m = 15) =>
                /\ v.pnl.num = 5 /\ v.pnl.den = 1
                /\ ToFixed0(v.margin) = 33
                /\ ToFixed0(v.roi) = 50
            /\ (p = 0 /\ m = 10) =>
                /\ ToFixed0(v.margin) = 100 /\ v.roi = NoValue
            /\ res.modal = v

\* C9 witness: the copy bought free and valued at 10 has been rendered in
\* the list and opened in the modal
C9_Witness ==
    /\ pc = "editing"
    /\ arg.purchasePrice = 0 /\ arg.marketPrice = 10
    /\ res.view.margin = [num |-> 100, den |-> 1]
    /\ res.modal.roi = NoValue

-----------------------------------------------------------------------------
(* Derived view: displayedBooks (useMemo over books, searchTerm,           *)
(* sortOption, showListedOnly).                                            *)

\* String.prototype.toLowerCase, character by character
LowerChar(c) == IF c = "A" THEN "a" ELSE IF c = "B" THEN "b" ELSE c

toLowerCase(str) == [i \in 1..Len(str) |-> LowerChar(str[i])]

\* String.prototype.includes: sub occurs in str as a substring
includes(str, sub) ==
    \E i \in 0..(Len(str) - Len(sub)) : SubSeq(str, i + 1, i + Len(sub)) = sub

CharRank(c) == CASE c = "a" -> 1 [] c = "b" -> 2 [] OTHER -> 3

\* lexical comparison of two strings of lower-case letters: -1, 0 or 1
RECURSIVE LexCompare(_, _)
LexCompare(x, y) ==
    IF x = <<>> THEN (IF y = <<>> THEN 0 ELSE -1)
    ELSE IF y = <<>> THEN 1
    ELSE IF CharRank(Head(x)) < CharRank(Head(y)) THEN -1
    ELSE IF CharRank(Head(x)) > CharRank(Head(y)) THEN 1
    ELSE LexCompare(Tail(x), Tail(y))

\* at the first position where x and y differ in case only: lower case first
RECURSIVE CaseCompare(_, _)
CaseCompare(x, y) ==
    IF x = <<>> \/ y = <<>> THEN 0
    ELSE IF Head(x) = Head(y) THEN CaseCompare(Tail(x), Tail(y))
    ELSE IF Head(x) = LowerChar(Head(x)) THEN -1 ELSE 1

\* String.prototype.localeCompare: letters first, then case
localeCompare(x, y) ==
    LET primary == LexCompare(toLowerCase(x), toLowerCase(y))
    IN  IF primary # 0 THEN primary ELSE CaseCompare(x, y)

\* book.year ?? 0
YearOrZero(book) == IF book.year = Null THEN 0 ELSE book.year

SortOptions == {"manual", "title-asc", "title-desc", "year-newest",
                "year-oldest"}

\* the comparator handed to items.sort
Comparator(option, a, b) ==
    CASE option = "title-asc" -> localeCompare(a.title, b.title)
      [] option = "title-desc" -> localeCompare(b.title, a.title)
      [] option = "year-newest" -> YearOrZero(b) - YearOrZero(a)
      [] option = "year-oldest" -> YearOrZero(a) - YearOrZero(b)
      [] OTHER -> 0

\* x put into the sorted list s after every element not greater than it
RECURSIVE InsertSorted(_, _, _)
InsertSorted(s, x, option) ==
    IF s = <<>> THEN <<x>>
    ELSE IF Comparator(option, x, Head(s)) < 0 THEN <<x>> \o s
         ELSE <<Head(s)>> \o InsertSorted(Tail(s), x, option)

\* Array.prototype.sort with the comparator: a stable sort
RECURSIVE SortBy(_, _)
SortBy(s, option) ==
    IF s = <<>> THEN <<>>
    ELSE InsertSorted(SortBy(SubSeq(s, 1, Len(s) - 1), option), s[Len(s)],
                      option)

\* copies: book.copies.filter(c => c.isListed)
ListedCopies(book) == SelectSeq(book.copies, LAMBDA c : c.isListed)

WithCopies(book, copies) == [book EXCEPT !.copies = copies]

\* a "listed only" step that keeps the books left without a copy
FilterListedKeepsBooks(items) ==
    [i \in 1..Len(items) |-> WithCopies(items[i], ListedCopies(items[i]))]

\* the "listed only" step: keep listed copies, drop books left with none
FilterListed(items) ==
    SelectSeq([i \in 1..Len(items) |-> WithCopies(items[i], ListedCopies(items[i]))],
              LAMBDA b : Len(b.copies) > 0)

\* the title step: case-insensitive substring
FilterTitle(items, term) ==
    SelectSeq(items, LAMBDA b : includes(toLowerCase(b.title), toLowerCase(term)))

\* the filters of the sorted branch, which the manual branch applies again
Filtered(list, term, listedOnly) ==
    LET listed == IF listedOnly THEN FilterListed(list) ELSE list
    IN  IF term # <<>> THEN FilterTitle(listed, term) ELSE listed

\* a manual branch that restarts from books and forgets the listed filter
ManualBranchUnfiltered(list, term, listedOnly) ==
    IF term # <<>> THEN FilterTitle(list, term) ELSE list

\* the else branch: items = [...books], then both filters once more
ManualBranch(list, term, listedOnly) == Filtered(list, term, listedOnly)

displayedBooks(list, term, option, listedOnly) ==
    IF option # "manual" THEN SortBy(Filtered(list, term, listedOnly), option)
    ELSE ManualBranch(list, term, listedOnly)

DisplayedBooks == displayedBooks(books, searchTerm, sortOption, showListedOnly)

-----------------------------------------------------------------------------
(* View harness: a fetched list is drawn; the three view controls act.     *)

MaxViewBooks == 3

ViewTitles == {<<"a">>, <<"A", "b">>, <<"b">>}
ViewYears == {Null, 1990}
ViewTerms == {<<>>, <<"a">>, <<"B">>, <<"a", "b">>}

\* the listed flags of a book's copies, in sortIndex order
ViewListedPatterns == {<<>>, <<FALSE>>, <<TRUE, FALSE>>}

ViewCopies(bookId, flags) ==
    [j \in 1..Len(flags) |->
        [id |-> 10 * bookId + j, bookId |-> bookId, sortIndex |-> j - 1,
         isListed |-> flags[j]]]

ViewBook(i, shape) ==
    [id |-> i, title |-> shape.title, year |-> shape.year, isbn |-> <<"1">>,
     sortIndex |-> i - 1, copies |-> ViewCopies(i, shape.flags)]

ViewShapes == [title : ViewTitles, year : ViewYears, flags : ViewListedPatterns]

\* lists as getBooks returns them: ordered by sortIndex, copies nested
ViewLists ==
    UNION {{[i \in 1..n |-> ViewBook(i, shapes[i])] :
                shapes \in [1..n -> ViewShapes]} : n \in 0..MaxViewBooks}

ViewInit ==
    /\ books \in ViewLists
    /\ isLoading = FALSE
    /\ searchTerm = <<>>
    /\ sortOption = "manual"
    /\ showListedOnly = FALSE
    /\ ui = NoValue
    /\ dbBooks = <<>> /\ dbCopies = <<>>
    /\ ids = NoValue /\ calls = EmptyBag /\ toasts = <<>> /\ events = 0 /\ last = NoValue
    /\ arg = NoValue /\ res = NoValue /\ pc = "view"

\* onChange of the "Filter by title..." input
SetSearchTerm(term) ==
    /\ searchTerm' = term
    /\ UNCHANGED <<books, isLoading, sortOption, showListedOnly, ui,
                   storeVars, asyncVars, pureVars>>

\* onValueChange of the sort select
SetSortOption(option) ==
    /\ sortOption' = option
    /\ UNCHANGED <<books, isLoading, searchTerm, showListedOnly, ui,
                   storeVars, asyncVars, pureVars>>

\* onCheckedChange of the "Listed only" switch
SetShowListedOnly(checked) ==
    /\ showListedOnly' = checked
    /\ UNCHANGED <<books, isLoading, searchTerm, sortOption, ui,
                   storeVars, asyncVars, pureVars>>

ViewNext ==
    \/ \E term \in ViewTerms : SetSearchTerm(term)
    \/ \E option \in SortOptions : SetSortOption(option)
    \/ \E checked \in BOOLEAN : SetShowListedOnly(checked)

SpecView == ViewInit /\ [][ViewNext]_vars

\* what a displayed list shows: each book id with the ids of its copies
Shown(items) ==
    {<<items[i].id, {items[i].copies[j].id : j \in 1..Len(items[i].copies)}>> :
        i \in 1..Len(items)}

\* C8: for every book list, search term and listed-only setting, every sort
\* option displays the same books with the same copies under each; only the
\* order depends on the sort option.
C8_FilterCommutesWithSort ==
    \A o1, o2 \in SortOptions :
        LET d1 == displayedBooks(books, searchTerm, o1, showListedOnly)
            d2 == displayedBooks(books, searchTerm, o2, showListedOnly)
        IN  Len(d1) = Len(d2) /\ Shown(d1) = Shown(d2)

\* C8 witness: both filters on, a sort by title that reverses the manual
\* order of the two books displayed, and a book hidden by the filters
C8_Witness ==
    /\ showListedOnly /\ searchTerm # <<>> /\ sortOption = "title-desc"
    /\ Len(books) > Len(DisplayedBooks)
    /\ Len(DisplayedBooks) = 2
    /\ DisplayedBooks[1].id > DisplayedBooks[2].id

-----------------------------------------------------------------------------
(* Copy mapper: dbToCopy / copyToDb (the fields the handlers read).        *)

CopyKeys == {"id", "bookId", "sortIndex", "isListed"}

DbCopyKeyOf(k) ==
    CASE k = "bookId" -> "book_id"
      [] k = "sortIndex" -> "sort_index"
      [] k = "isListed" -> "is_listed"
      [] OTHER -> k

CopyKeyOf(k) ==
    CASE k = "book_id" -> "bookId"
      [] k = "sort_index" -> "sortIndex"
      [] k = "is_listed" -> "isListed"
      [] OTHER -> k

copyToDb(copy) ==
    LET present == {k \in CopyKeys : Has(copy, k)}
    IN  [dk \in {DbCopyKeyOf(k) : k \in present} |-> copy[CopyKeyOf(dk)]]

dbToCopy(row) ==
    LET present == {k \in CopyKeys : Has(row, DbCopyKeyOf(k))}
    IN  [k \in present |-> row[DbCopyKeyOf(k)]]

-----------------------------------------------------------------------------
(* The persisted store behind the supabase client: tables "books" and      *)
(* "inventory", the foreign key inventory.book_id -> books.id with ON      *)
(* DELETE CASCADE.  A row is a function from the columns that are not      *)
(* null to their values; the id column is the key of the table.            *)

MaxBooks == 4
MaxCopies == 3

BookIds == 1..MaxBooks
CopyIds == 1..MaxCopies

NoRow == NoValue

PresentBooks(tbl) == {id \in DOMAIN tbl : tbl[id] # NoRow}
PresentCopies(tbl) == {id \in DOMAIN tbl : tbl[id] # NoRow}

\* the row with its key, as select("*") returns it
RowWithId(tbl, id) ==
    [k \in DOMAIN tbl[id] \cup {"id"} |-> IF k = "id" THEN id ELSE tbl[id][k]]

\* a payload without its id column
Columns(payload) == [k \in DOMAIN payload \ {"id"} |-> payload[k]]

\* INSERT ... ON CONFLICT (id) DO UPDATE: the columns given replace the
\* row's, the others stay; a missing row is inserted with the columns given
Merge(old, cols) ==
    IF old = NoRow THEN cols
    ELSE [k \in DOMAIN old \cup DOMAIN cols |->
            IF k \in DOMAIN cols THEN cols[k] ELSE old[k]]

\* an upsert that adds the sort_index given to the one stored
MergeAccumulate(old, cols) ==
    IF old = NoRow THEN cols
    ELSE [k \in DOMAIN old \cup DOMAIN cols |->
            IF k \in DOMAIN cols
            THEN (IF k = "sort_index" /\ k \in DOMAIN old
                  THEN old[k] + cols[k] ELSE cols[k])
            ELSE old[k]]

\* a store in which the first write of a row wins
KeepExisting(old, cols) == IF old = NoRow THEN cols ELSE old

UpsertRow(old, cols) == Merge(old, cols)

\* from(table).upsert(rows): every row of the list, in one statement
RECURSIVE Upsert(_, _)
Upsert(tbl, rows) ==
    IF rows = <<>> THEN tbl
    ELSE LET r == Head(rows)
         IN  Upsert([tbl EXCEPT ![r.id] = UpsertRow(tbl[r.id], Columns(r))],
                    Tail(rows))

\* the foreign key: a book_id given must name a book
ForeignKeyHolds(bookTbl, rows) ==
    \A i \in 1..Len(rows) :
        Has(rows[i], "book_id") => rows[i].book_id \in PresentBooks(bookTbl)

\* from("books").delete().eq("id", bookId), with the cascade to inventory
DeleteBookRows(tbl, bookId) == [tbl EXCEPT ![bookId] = NoRow]

CascadeCopies(tbl, bookId) ==
    [id \in DOMAIN tbl |->
        IF tbl[id] # NoRow /\ Has(tbl[id], "book_id") /\ tbl[id].book_id = bookId
        THEN NoRow ELSE tbl[id]]

\* from("inventory").delete().eq("id", copyId)
DeleteCopyRow(tbl, copyId) == [tbl EXCEPT ![copyId] = NoRow]

\* the injective sequences over S, in every order
Perms(S) ==
    {f \in [1..Cardinality(S) -> S] : \A i, j \in 1..Cardinality(S) :
                                          f[i] = f[j] => i = j}

\* .order("sort_index", { ascending: true }): rows with equal sort_index
\* come in an order the database chooses
OrderedBy(tbl, S) ==
    {f \in Perms(S) : \A i, j \in 1..Len(f) :
                          i < j => tbl[f[i]].sort_index <= tbl[f[j]].sort_index}

\* inventory(*): the copies whose book_id is the book's
InventoryOf(copyTbl, bookId) ==
    {id \in PresentCopies(copyTbl) :
        Has(copyTbl[id], "book_id") /\ copyTbl[id].book_id = bookId}

\* (row.inventory || []).map(dbToCopy).sort((a, b) => a.sortIndex - b.sortIndex)
CopiesFor(copyTbl, order) ==
    [j \in 1..Len(order) |-> dbToCopy(RowWithId(copyTbl, order[j]))]

\* getBooks: every list the select and the two mappers can produce
getBooks(bookTbl, copyTbl) ==
    LET present == PresentBooks(bookTbl)
        copyOrders(b) == OrderedBy(copyTbl, InventoryOf(copyTbl, b))
        allCopyOrders == UNION {copyOrders(b) : b \in present}
        choices == {f \in [present -> allCopyOrders] :
                        \A b \in present : f[b] \in copyOrders(b)}
    IN  {[i \in 1..Len(order) |->
            [dbToBook(RowWithId(bookTbl, order[i])) EXCEPT
                !.copies = CopiesFor(copyTbl, f[order[i]])]] :
         order \in OrderedBy(bookTbl, present), f \in choices}

-----------------------------------------------------------------------------
(* Gateway, client side: the payload each service function sends.          *)

\* addBook: bookToDb(book), sort_index ?? 0
addBookPayload(book) ==
    LET payload == bookToDb(book)
    IN  IF Has(payload, "sort_index") THEN payload
        ELSE [k \in DOMAIN payload \cup {"sort_index"} |->
                IF k = "sort_index" THEN 0 ELSE payload[k]]

\* an update payload that fills in a sort_index the details do not carry
updateBookDetailsClobbers(details) == addBookPayload(details)

\* updateBookDetails: bookToDb(details)
updateBookDetailsPayload(details) == bookToDb(details)

\* saveCopy: copyToDb(copy), book_id forced, sort_index ?? 0
saveCopyPayload(bookId, copy) ==
    LET payload == copyToDb(copy)
    IN  [k \in DOMAIN payload \cup {"book_id", "sort_index"} |->
            IF k = "book_id" THEN bookId
            ELSE IF k = "sort_index"
                 THEN (IF Has(payload, "sort_index") THEN payload.sort_index
                       ELSE 0)
                 ELSE payload[k]]

\* updateBookOrder: { id, sort_index: bookToDb(book).sort_index } per book
updateBookOrderPayload(list) ==
    [i \in 1..Len(list) |->
        [id |-> list[i].id, sort_index |-> bookToDb(list[i]).sort_index]]

\* updateCopiesOrder: { id, sort_index: copyToDb({...copy, sortIndex: idx}) }
updateCopiesOrderPayload(copies) ==
    [i \in 1..Len(copies) |->
        [id |-> copies[i].id,
         sort_index |-> copyToDb([copies[i] EXCEPT !.sortIndex = i - 1]).sort_index]]

-----------------------------------------------------------------------------
(* Ordering: arrayMove and the reindexing of handleDragEnd.                *)

\* findIndex: the 1-based position of the item with the id (0: not found)
IndexOf(list, id) ==
    IF \E i \in 1..Len(list) : list[i].id = id
    THEN CHOOSE i \in 1..Len(list) :
            list[i].id = id /\ \A j \in 1..(i - 1) : list[j].id # id
    ELSE 0

RemoveAt(list, i) == SubSeq(list, 1, i - 1) \o SubSeq(list, i + 1, Len(list))

InsertAt(list, i, x) ==
    SubSeq(list, 1, i - 1) \o <<x>> \o SubSeq(list, i, Len(list))

\* exchanging the two positions instead of moving
arraySwap(list, from, to) ==
    [i \in 1..Len(list) |->
        IF i = from THEN list[to] ELSE IF i = to THEN list[from] ELSE list[i]]

\* arrayMove of @dnd-kit/sortable: splice out at from, splice in at to
arrayMove(list, from, to) == InsertAt(RemoveAt(list, from), to, list[from])

\* a reorder that moves the items and keeps the sortIndex each one had
KeepSortIndex(list) == list

\* .map((item, idx) => ({ ...item, sortIndex: idx }))
WithNewSortIndex(list) ==
    [i \in 1..Len(list) |-> [list[i] EXCEPT !.sortIndex = i - 1]]

-----------------------------------------------------------------------------
(* The collection page: its state, the gateway calls its handlers await,   *)
(* the backend serving them, and the code that runs after each await.      *)

MaxInFlight == 2
MaxEvents == 2

\* the database as the page finds it: books in manual order, two copies of
\* the first book, one id left for a book and one for a copy to be added
SeedBooks ==
    [id \in BookIds |->
        IF id < MaxBooks THEN [title |-> <<"a">>, sort_index |-> id - 1]
        ELSE NoRow]

SeedCopies ==
    [id \in CopyIds |->
        IF id < MaxCopies
        THEN [book_id |-> 1, sort_index |-> id - 1, is_listed |-> FALSE]
        ELSE NoRow]

\* useState initial values of CollectionPage; the mount effect has not run
Init ==
    /\ dbBooks = SeedBooks
    /\ dbCopies = SeedCopies
    /\ ids = [book |-> MaxBooks, copy |-> MaxCopies]
    /\ books = <<>>
    /\ isLoading = TRUE
    /\ searchTerm = <<>>
    /\ sortOption = "manual"
    /\ showListedOnly = FALSE
    /\ ui = NoValue
    /\ calls = EmptyBag
    /\ toasts = <<>>
    /\ events = 0
    /\ last = [step |-> "init"]
    /\ arg = NoValue /\ res = NoValue /\ pc = "mount"

\* a handler suspended at "await <op>(req)"; ctx is the books value its
\* closure captured
Call(h, op, req, ctx) ==
    [h |-> h, op |-> op, st |-> "sent", req |-> req, data |-> <<>>, ctx |-> ctx]

Send(c) == calls (+) SetToBag({c})
Drop(c) == calls (-) SetToBag({c})
Replace(c, d) == (calls (-) SetToBag({c})) (+) SetToBag({d})

Sent(op) == {c \in BagToSet(calls) : c.st = "sent" /\ c.op = op}
Settled(op) == {c \in BagToSet(calls) : c.st # "sent" /\ c.op = op}

\* the promise resolves (with data) or rejects
Resolve(c, data) == Replace(c, [c EXCEPT !.st = "ok", !.data = data])
\* the Error a failed call rejects with
ErrorOf(op) == [message |-> <<"failed: ", op>>]
Reject(c) == Replace(c, [c EXCEPT !.st = "err", !.data = <<ErrorOf(c.op)>>])

\* the user can act while earlier handlers are still awaiting
CanStart ==
    pc = "ready" /\ BagCardinality(calls) < MaxInFlight /\ events < MaxEvents

\* toast({ title })
Toast(title) == <<[title |-> title]>>

\* a catch that only logs the error
ErrorLogged(title, c) == <<>>

\* toast({ title, description: (error as Error).message,
\*         variant: "destructive" }) in a catch
ErrorToast(title, c) ==
    <<[title |-> title, description |-> c.data[1].message,
       variant |-> "destructive"]>>

\* fetchBooks up to its await: setIsLoading(true); await getBooks()
FetchCall(h) == Call(h, "getBooks", [none |-> TRUE], <<>>)

\* useEffect(() => { fetchBooks(); }, [fetchBooks])
FetchOnMount ==
    /\ pc = "mount"
    /\ pc' = "ready"
    /\ isLoading' = TRUE
    /\ calls' = Send(FetchCall("fetch"))
    /\ last' = [step |-> "mount"]
    /\ UNCHANGED <<events, books, searchTerm, sortOption, showListedOnly, ui, toasts,
                   storeVars, arg, res>>

-----------------------------------------------------------------------------
(* The backend serves a call: the statement runs as one transaction.       *)

Served(c) == [step |-> "served", op |-> c.op, h |-> c.h, req |-> c.req]

\* getBooks: select("*, inventory(*)").order("sort_index")
ServeGetBooks ==
    \E c \in Sent("getBooks") :
        /\ \E list \in getBooks(dbBooks, dbCopies) : calls' = Resolve(c, list)
        /\ last' = Served(c)
        /\ UNCHANGED <<events, viewVars, storeVars, toasts, pureVars>>

\* addBook: insert([payload]).select().single()
ServeAddBook ==
    \E c \in Sent("addBook") :
        /\ dbBooks' = [dbBooks EXCEPT ![c.req.id] = Columns(c.req.row)]
        /\ calls' = Resolve(c, <<>>)
        /\ last' = Served(c)
        /\ UNCHANGED <<events, viewVars, dbCopies, ids, toasts, pureVars>>

\* updateBookDetails: update(payload).eq("id", bookId); no row, no change
ServeUpdateBookDetails ==
    \E c \in Sent("updateBookDetails") :
        /\ dbBooks' = IF dbBooks[c.req.id] = NoRow THEN dbBooks
                      ELSE [dbBooks EXCEPT ![c.req.id] = Merge(@, c.req.row)]
        /\ calls' = Resolve(c, <<>>)
        /\ last' = Served(c)
        /\ UNCHANGED <<events, viewVars, dbCopies, ids, toasts, pureVars>>

\* saveCopy: upsert(payload); the foreign key rejects a book_id without book
ServeSaveCopy ==
    \E c \in Sent("saveCopy") :
        /\ IF ForeignKeyHolds(dbBooks, <<c.req.row>>)
           THEN /\ dbCopies' = Upsert(dbCopies, <<c.req.row>>)
                /\ calls' = Resolve(c, <<>>)
           ELSE /\ dbCopies' = dbCopies
                /\ calls' = Reject(c)
        /\ last' = [Served(c) EXCEPT !.step =
                      IF ForeignKeyHolds(dbBooks, <<c.req.row>>)
                      THEN "served" ELSE "failed"]
        /\ UNCHANGED <<events, viewVars, dbBooks, ids, toasts, pureVars>>

\* deleteCopy: delete().eq("id", copyId)
ServeDeleteCopy ==
    \E c \in Sent("deleteCopy") :
        /\ dbCopies' = DeleteCopyRow(dbCopies, c.req.id)
        /\ calls' = Resolve(c, <<>>)
        /\ last' = Served(c)
        /\ UNCHANGED <<events, viewVars, dbBooks, ids, toasts, pureVars>>

\* deleteBook: delete().eq("id", bookId), ON DELETE CASCADE on inventory
ServeDeleteBook ==
    \E c \in Sent("deleteBook") :
        /\ dbBooks' = DeleteBookRows(dbBooks, c.req.id)
        /\ dbCopies' = CascadeCopies(dbCopies, c.req.id)
        /\ calls' = Resolve(c, <<>>)
        /\ last' = Served(c)
        /\ UNCHANGED <<events, viewVars, ids, toasts, pureVars>>

\* updateBookOrder: from("books").upsert(updates)
ServeUpdateBookOrder ==
    \E c \in Sent("updateBookOrder") :
        /\ dbBooks' = Upsert(dbBooks, c.req.rows)
        /\ calls' = Resolve(c, <<>>)
        /\ last' = Served(c)
        /\ UNCHANGED <<events, viewVars, dbCopies, ids, toasts, pureVars>>

\* updateCopiesOrder: from("inventory").upsert(updates)
ServeUpdateCopiesOrder ==
    \E c \in Sent("updateCopiesOrder") :
        /\ dbCopies' = Upsert(dbCopies, c.req.rows)
        /\ calls' = Resolve(c, <<>>)
        /\ last' = Served(c)
        /\ UNCHANGED <<events, viewVars, dbBooks, ids, toasts, pureVars>>

\* any call: the client returns { error } and the service function throws
BackendError ==
    \E c \in {d \in BagToSet(calls) : d.st = "sent"} :
        /\ calls' = Reject(c)
        /\ last' = [Served(c) EXCEPT !.step = "failed"]
        /\ UNCHANGED <<events, viewVars, storeVars, toasts, pureVars>>

-----------------------------------------------------------------------------
(* Handlers of the page, up to their first await.                          *)

\* what the manual-add form submits (Omit<Book, "id" | "copies" | "sortIndex">)
NewBookForm == [title |-> <<"b">>, authors |-> << <<"a">> >>]
EditBookForm == [title |-> <<"c">>]

\* the copy the add-copy modal builds in onSubmit
ModalCopy(bookId, copyId, sortIndex, isListed) ==
    [id |-> copyId, bookId |-> bookId, sortIndex |-> sortIndex,
     isListed |-> isListed]

BookAt(list, id) == list[IndexOf(list, id)]
CopyAt(book, id) == book.copies[IndexOf(book.copies, id)]
BookIdsOf(list) == {list[i].id : i \in 1..Len(list)}
CopyIdsOf(book) == {book.copies[j].id : j \in 1..Len(book.copies)}

\* what is on screen to click or drag
ShownBookIds == BookIdsOf(DisplayedBooks)
ShownCopyIds(bookId) == CopyIdsOf(BookAt(DisplayedBooks, bookId))

\* handleAddBook(book): await addBook(book); the database assigns the id
HandleAddBook ==
    /\ CanStart
    /\ ids.book <= MaxBooks
    /\ calls' = Send(Call("addBook", "addBook",
                          [id |-> ids.book, row |-> addBookPayload(NewBookForm)],
                          <<>>))
    /\ ids' = [ids EXCEPT !.book = @ + 1]
    /\ events' = events + 1
    /\ last' = [step |-> "handleAddBook"]
    /\ UNCHANGED <<viewVars, dbBooks, dbCopies, toasts, pureVars>>

\* openEditBookModal(book), then handleUpdateBook(bookData)
HandleUpdateBook(bookId) ==
    /\ CanStart
    /\ bookId \in ShownBookIds
    /\ calls' = Send(Call("updateBook", "updateBookDetails",
                          [id |-> bookId,
                           row |-> updateBookDetailsPayload(EditBookForm)],
                          <<>>))
    /\ events' = events + 1
    /\ last' = [step |-> "handleUpdateBook", id |-> bookId]
    /\ UNCHANGED <<viewVars, storeVars, toasts, pureVars>>

\* openAddCopy(book), onSubmit with id Date.now(): onSave is not awaited,
\* the modal toasts and closes at once
HandleSaveNewCopy(bookId, isListed) ==
    /\ CanStart
    /\ bookId \in ShownBookIds
    /\ ids.copy <= MaxCopies
    /\ calls' = Send(Call("saveCopy", "saveCopy",
                          [id |-> ids.copy,
                           row |-> saveCopyPayload(bookId,
                                      ModalCopy(bookId, ids.copy, 0, isListed))],
                          <<>>))
    /\ ids' = [ids EXCEPT !.copy = @ + 1]
    /\ toasts' = Toast("Copy saved!")
    /\ events' = events + 1
    /\ last' = [step |-> "handleSaveCopy", id |-> ids.copy]
    /\ UNCHANGED <<viewVars, dbBooks, dbCopies, pureVars>>

\* openEditCopy(book, copy), onSubmit keeps copy.id and copy.sortIndex
HandleSaveEditedCopy(bookId, copyId, isListed) ==
    /\ CanStart
    /\ bookId \in ShownBookIds
    /\ copyId \in ShownCopyIds(bookId)
    /\ LET copy == CopyAt(BookAt(DisplayedBooks, bookId), copyId)
       IN  calls' = Send(Call("saveCopy", "saveCopy",
                          [id |-> copyId,
                           row |-> saveCopyPayload(bookId,
                                      ModalCopy(bookId, copyId, copy.sortIndex,
                                                isListed))],
                          <<>>))
    /\ toasts' = Toast("Copy saved!")
    /\ events' = events + 1
    /\ last' = [step |-> "handleSaveCopy", id |-> copyId]
    /\ UNCHANGED <<viewVars, storeVars, pureVars>>

\* handleDeleteBook(bookId): await deleteBook(bookId)
HandleDeleteBook(bookId) ==
    /\ CanStart
    /\ bookId \in ShownBookIds
    /\ calls' = Send(Call("deleteBook", "deleteBook", [id |-> bookId], <<>>))
    /\ events' = events + 1
    /\ last' = [step |-> "handleDeleteBook", id |-> bookId]
    /\ UNCHANGED <<viewVars, storeVars, toasts, pureVars>>

\* handleDeleteCopy(bookId, copyId): await deleteCopy(copyId)
HandleDeleteCopy(bookId, copyId) ==
    /\ CanStart
    /\ bookId \in ShownBookIds
    /\ copyId \in ShownCopyIds(bookId)
    /\ calls' = Send(Call("deleteCopy", "deleteCopy", [id |-> copyId], <<>>))
    /\ events' = events + 1
    /\ last' = [step |-> "handleDeleteCopy", id |-> copyId]
    /\ UNCHANGED <<viewVars, storeVars, toasts, pureVars>>

\* handleToggleListed(bookId, copyId, checked): the copy is looked up in
\* books, { ...copy, isListed } is saved; books is captured for the patch
HandleToggleListed(bookId, copyId) ==
    /\ CanStart
    /\ bookId \in ShownBookIds
    /\ copyId \in ShownCopyIds(bookId)
    /\ LET copy == CopyAt(BookAt(books, bookId), copyId)
           updatedCopy == [copy EXCEPT !.isListed = ~copy.isListed]
       IN  calls' = Send(Call("toggle", "saveCopy",
                              [id |-> copyId, bookId |-> bookId,
                               copy |-> updatedCopy,
                               row |-> saveCopyPayload(bookId, updatedCopy)],
                              books))
    /\ events' = events + 1
    /\ last' = [step |-> "handleToggleListed", id |-> copyId]
    /\ UNCHANGED <<viewVars, storeVars, toasts, pureVars>>

\* the sortable items on screen, with the data they register: a book is
\* { type: "book" }, a copy is { type: "copy", bookId }
DragItems ==
    {[type |-> "book", id |-> b] : b \in ShownBookIds}
    \cup UNION {{[type |-> "copy", id |-> c, bookId |-> b] :
                   c \in ShownCopyIds(b)} : b \in ShownBookIds}

\* event.over: an item, or null when the drop has no target
DropTargets == DragItems \cup {NoValue}

\* a handleDragEnd that compares the ids only
DragBranchUntyped(active, over) ==
    IF over = NoValue THEN "none"
    ELSE IF active.type = "book" /\ active.id # over.id THEN "book"
    ELSE IF active.type = "copy" /\ active.id # over.id THEN "copy"
    ELSE "none"

\* the branch handleDragEnd takes: if (!over) return; both books with
\* different ids; both copies with different ids; otherwise nothing
DragBranch(active, over) ==
    IF over = NoValue THEN "none"
    ELSE IF active.type = "book" /\ over.type = "book" /\ active.id # over.id
         THEN "book"
    ELSE IF active.type = "copy" /\ over.type = "copy" /\ active.id # over.id
         THEN "copy"
    ELSE "none"

\* why a drag-end event is one the handler has nothing to do for
NoTarget(active, over) == over = NoValue
OntoItself(active, over) == over = active
CrossType(active, over) == over # NoValue /\ over.type # active.type

\* handleDragEnd falling through both branches: nothing is set, nothing sent
HandleDragEndNoop(active, over) ==
    /\ CanStart
    /\ events' = events + 1
    /\ last' = [step |-> "handleDragEndNoop",
                why |-> IF NoTarget(active, over) THEN "no target"
                        ELSE IF CrossType(active, over) THEN "cross-type"
                        ELSE "same item"]
    /\ UNCHANGED <<viewVars, storeVars, calls, toasts, pureVars>>

\* handleDragEnd, both items books: arrayMove, reindex, optimistic setBooks,
\* await updateBookOrder(pairs)
HandleDragEndBook(activeId, overId) ==
    /\ CanStart
    /\ sortOption = "manual"
    /\ activeId \in ShownBookIds /\ overId \in ShownBookIds
    /\ activeId # overId
    /\ LET oldIndex == IndexOf(books, activeId)
           newIndex == IndexOf(books, overId)
           reorderedBooks == arrayMove(books, oldIndex, newIndex)
           booksWithNewSortIndex == WithNewSortIndex(reorderedBooks)
           pairs == [i \in 1..Len(booksWithNewSortIndex) |->
                        [id |-> booksWithNewSortIndex[i].id,
                         sortIndex |-> booksWithNewSortIndex[i].sortIndex]]
       IN  /\ books' = booksWithNewSortIndex
           /\ calls' = Send(Call("dragBook", "updateBookOrder",
                                 [rows |-> updateBookOrderPayload(pairs)], <<>>))
    /\ events' = events + 1
    /\ last' = [step |-> "handleDragEndBook", id |-> activeId, over |-> overId]
    /\ UNCHANGED <<isLoading, searchTerm, sortOption, showListedOnly, ui,
                   storeVars, toasts, pureVars>>

\* handleDragEnd, both items copies of the open book: the same on its copies
HandleDragEndCopy(bookId, activeId, overId) ==
    /\ CanStart
    /\ bookId \in ShownBookIds
    /\ activeId \in ShownCopyIds(bookId) /\ overId \in ShownCopyIds(bookId)
    /\ activeId # overId
    /\ LET book == BookAt(books, bookId)
           oldCopyIndex == IndexOf(book.copies, activeId)
           newCopyIndex == IndexOf(book.copies, overId)
           reorderedCopies == arrayMove(book.copies, oldCopyIndex, newCopyIndex)
           copiesWithNewSortIndex == WithNewSortIndex(reorderedCopies)
       IN  /\ books' = [i \in 1..Len(books) |->
                          IF books[i].id = bookId
                          THEN WithCopies(books[i], copiesWithNewSortIndex)
                          ELSE books[i]]
           /\ calls' = Send(Call("dragCopy", "updateCopiesOrder",
                                 [bookId |-> bookId,
                                  rows |-> updateCopiesOrderPayload(
                                              copiesWithNewSortIndex)],
                                 <<>>))
    /\ events' = events + 1
    /\ last' = [step |-> "handleDragEndCopy", book |-> bookId,
                id |-> activeId, over |-> overId]
    /\ UNCHANGED <<isLoading, searchTerm, sortOption, showListedOnly, ui,
                   storeVars, toasts, pureVars>>

\* handleDragEnd(event), event = { active, over }
HandleDragEnd(active, over) ==
    \/ /\ DragBranch(active, over) = "book"
       /\ HandleDragEndBook(active.id, over.id)
    \/ /\ DragBranch(active, over) = "copy"
       /\ HandleDragEndCopy(active.bookId, active.id, over.id)
    \/ /\ DragBranch(active, over) = "none"
       /\ HandleDragEndNoop(active, over)

\* the "Listed only" switch of the page
ToggleShowListedOnly ==
    /\ pc = "ready"
    /\ showListedOnly' = ~showListedOnly
    /\ last' = [step |-> "setShowListedOnly"]
    /\ UNCHANGED <<events, books, isLoading, searchTerm, sortOption, ui, storeVars,
                   calls, toasts, pureVars>>

-----------------------------------------------------------------------------
(* Handlers of the page, after an await has settled.                       *)

Resumed(c) == [step |-> "resumed", op |-> c.op, h |-> c.h, st |-> c.st]

\* the handlers that write, then "await fetchBooks()"
RefetchingHandlers == {"addBook", "updateBook", "saveCopy", "deleteCopy"}

ErrorTitle(h) ==
    CASE h = "addBook" -> "Error Adding Book"
      [] h = "updateBook" -> "Error Updating Book"
      [] h = "saveCopy" -> "Error Saving Copy"
      [] h = "deleteCopy" -> "Error Deleting Copy"
      [] h = "deleteBook" -> "Error Deleting Book"
      [] h = "toggle" -> "Error Updating Copy"
      [] OTHER -> "Error Saving Order"

\* the toast of the code that awaited fetchBooks(), which never throws:
\* handleDeleteCopy, and the manual-add modal after onSaveBook
SuccessTitle(h) ==
    CASE h = "deleteCopy" -> "Copy Deleted"
      [] h = "addBook" -> "Book added!"
      [] h = "updateBook" -> "Book updated!"
      [] OTHER -> ""

\* fetchBooks after its await: setBooks(fetchedBooks), or the toast of its
\* catch; finally setIsLoading(false); then the toast of its caller.
FetchBooksDone ==
    \E c \in Settled("getBooks") :
        /\ books' = IF c.st = "ok" THEN c.data ELSE books
        /\ isLoading' = FALSE
        /\ LET caught == IF c.st = "err"
                          THEN ErrorToast("Error Fetching Collection", c)
                          ELSE <<>>
               after == IF SuccessTitle(c.h) # ""
                         THEN Toast(SuccessTitle(c.h))
                         ELSE <<>>
           IN  toasts' = IF caught \o after = <<>> THEN toasts
                         ELSE caught \o after
        /\ calls' = Drop(c)
        /\ last' = Resumed(c)
        /\ UNCHANGED <<events, searchTerm, sortOption, showListedOnly, ui, storeVars,
                       pureVars>>

\* a write handler that returns without "await fetchBooks()"
NoRefetch(c) == Drop(c)

\* "await fetchBooks()" after the write of a handler
RefetchAfterWrite(c) == Replace(c, FetchCall(c.h))

\* handleAddBook, handleUpdateBook, handleSaveCopy, handleDeleteCopy after
\* the write: await fetchBooks(), or the toast of the catch
WriteDone ==
    \E c \in {d \in BagToSet(calls) : d.st # "sent" /\ d.op # "getBooks"
                                      /\ d.h \in RefetchingHandlers} :
        /\ IF c.st = "ok"
           THEN /\ isLoading' = TRUE
                /\ calls' = RefetchAfterWrite(c)
                /\ toasts' = toasts
           ELSE /\ isLoading' = isLoading
                /\ calls' = Drop(c)
                /\ toasts' = ErrorToast(ErrorTitle(c.h), c)
        /\ last' = Resumed(c)
        /\ UNCHANGED <<events, books, searchTerm, sortOption, showListedOnly, ui,
                       storeVars, pureVars>>

\* handleDeleteBook after deleteBook: setBooks(prev => prev.filter(...))
DeleteBookDone ==
    \E c \in Settled("deleteBook") :
        /\ IF c.st = "ok"
           THEN /\ books' = SelectSeq(books, LAMBDA b : b.id # c.req.id)
                /\ toasts' = Toast("Book Deleted")
           ELSE /\ books' = books
                /\ toasts' = ErrorToast(ErrorTitle(c.h), c)
        /\ calls' = Drop(c)
        /\ last' = Resumed(c)
        /\ UNCHANGED <<events, isLoading, searchTerm, sortOption, showListedOnly, ui,
                       storeVars, pureVars>>

\* books.map(b => b.id === bookId ? { ...b, copies: b.copies.map(...) } : b)
PatchCopy(list, bookId, copyId, updatedCopy) ==
    [i \in 1..Len(list) |->
        IF list[i].id = bookId
        THEN WithCopies(list[i],
                 [j \in 1..Len(list[i].copies) |->
                     IF list[i].copies[j].id = copyId THEN updatedCopy
                     ELSE list[i].copies[j]])
        ELSE list[i]]

\* handleToggleListed after saveCopy: setBooks(updatedBooks), computed from
\* the books its closure captured
ToggleListedDone ==
    \E c \in {d \in BagToSet(calls) : d.st # "sent" /\ d.h = "toggle"} :
        /\ IF c.st = "ok"
           THEN /\ books' = PatchCopy(c.ctx, c.req.bookId, c.req.id, c.req.copy)
                /\ toasts' = toasts
           ELSE /\ books' = books
                /\ toasts' = ErrorToast(ErrorTitle(c.h), c)
        /\ calls' = Drop(c)
        /\ last' = Resumed(c)
        /\ UNCHANGED <<events, isLoading, searchTerm, sortOption, showListedOnly, ui,
                       storeVars, pureVars>>

\* a catch that toasts and leaves the optimistic order in place
RevertNothing(c) == Drop(c)

\* fetchBooks() in the catch of handleDragEnd: "Revert on failure"
RevertByRefetch(c) == Replace(c, FetchCall(c.h))

\* handleDragEnd after updateBookOrder / updateCopiesOrder: nothing more on
\* success; on failure the toast and fetchBooks() to revert
DragEndDone ==
    \E c \in {d \in BagToSet(calls) : d.st # "sent"
                                      /\ d.h \in {"dragBook", "dragCopy"}
                                      /\ d.op # "getBooks"} :
        /\ IF c.st = "ok"
           THEN /\ isLoading' = isLoading
                /\ calls' = Drop(c)
                /\ toasts' = toasts
           ELSE /\ isLoading' = TRUE
                /\ calls' = RevertByRefetch(c)
                /\ toasts' = ErrorToast(ErrorTitle(c.h), c)
        /\ last' = Resumed(c)
        /\ UNCHANGED <<events, books, searchTerm, sortOption, showListedOnly, ui,
                       storeVars, pureVars>>

Next ==
    \/ FetchOnMount
    \/ ServeGetBooks
    \/ ServeAddBook
    \/ ServeUpdateBookDetails
    \/ ServeSaveCopy
    \/ ServeDeleteCopy
    \/ ServeDeleteBook
    \/ ServeUpdateBookOrder
    \/ ServeUpdateCopiesOrder
    \/ BackendError
    \/ FetchBooksDone
    \/ WriteDone
    \/ DeleteBookDone
    \/ ToggleListedDone
    \/ DragEndDone
    \/ HandleAddBook
    \/ \E b \in BookIds : HandleUpdateBook(b)
    \/ \E b \in BookIds, f \in BOOLEAN : HandleSaveNewCopy(b, f)
    \/ \E b \in BookIds, c \in CopyIds, f \in BOOLEAN : HandleSaveEditedCopy(b, c, f)
    \/ \E b \in BookIds : HandleDeleteBook(b)
    \/ \E b \in BookIds, c \in CopyIds : HandleDeleteCopy(b, c)
    \/ \E b \in BookIds, c \in CopyIds : HandleToggleListed(b, c)
    \/ \E active \in DragItems, over \in DropTargets : HandleDragEnd(active, over)
    \/ ToggleShowListedOnly

Spec == Init /\ [][Next]_vars

-----------------------------------------------------------------------------
(* Properties of the store and of the ordering.                            *)

\* a copy row whose book_id names no existing book
Orphans == {id \in PresentCopies(dbCopies) :
                ~Has(dbCopies[id], "book_id")
                \/ dbCopies[id].book_id \notin PresentBooks(dbBooks)}

ServedLast(op) == last.step = "served" /\ last.op = op

\* C2: once deleteBook(bookId) has succeeded no copy row has book_id =
\* bookId, and no operation that succeeds leaves a copy row whose book_id
\* names no existing book.
C2_CascadeNoOrphan ==
    /\ ServedLast("deleteBook") => InventoryOf(dbCopies, last.req.id) = {}
    /\ last.step = "served" => Orphans = {}

\* the stored sort_index values of the books other than id
OtherSortIndices(id) ==
    {dbBooks[b].sort_index : b \in PresentBooks(dbBooks) \ {id}}

MaxOf(S) == CHOOSE x \in S : \A y \in S : y <= x

\* C4: the book addBook has inserted carries sort_index = (maximum
\* sort_index of the books already stored) + 1, or 0 when there is none;
\* and once handleAddBook has refetched, the new book is the last of the
\* local list.
C4_NextSortIndex ==
    /\ ServedLast("addBook") =>
          dbBooks[last.req.id].sort_index =
              IF OtherSortIndices(last.req.id) = {} THEN 0
              ELSE MaxOf(OtherSortIndices(last.req.id)) + 1
    /\ (last.step = "resumed" /\ last.h = "addBook" /\ last.op = "getBooks"
        /\ last.st = "ok" /\ ids.book - 1 \in BookIdsOf(books))
          => books[Len(books)].id = ids.book - 1

\* the ids of a list, in order, without one of them
IdsWithout(list, id) ==
    LET rest == SelectSeq(list, LAMBDA x : x.id # id)
    IN  [i \in 1..Len(rest) |-> rest[i].id]

\* new is old with item a taken out and put where item o was, everything
\* else in its order, and sortIndex = position
IsArrayMove(old, new, a, o) ==
    /\ Len(new) = Len(old)
    /\ new[IndexOf(old, o)].id = a
    /\ IdsWithout(new, a) = IdsWithout(old, a)
    /\ \A i \in 1..Len(new) :
          /\ new[i].sortIndex = i - 1
          /\ new[i] = [BookAt(old, new[i].id) EXCEPT !.sortIndex = i - 1]

\* C5: a drag of A dropped onto B moves A to B's position, keeps the order
\* of all other items and numbers every item by its position; for the book
\* list and for the copies of one book.
C5_DragIsArrayMove ==
    [][/\ last'.step = "handleDragEndBook"
          => IsArrayMove(books, books', last'.id, last'.over)
       /\ last'.step = "handleDragEndCopy"
          => /\ IsArrayMove(BookAt(books, last'.book).copies,
                            BookAt(books', last'.book).copies,
                            last'.id, last'.over)
             /\ \A i \in 1..Len(books) :
                   books[i].id # last'.book => books'[i] = books[i]
             /\ BookIdsOf(books') = BookIdsOf(books)]_vars

\* C5 witness: position 0 of three books dragged to position 2
C5_Witness ==
    /\ last.step = "handleDragEndBook"
    /\ [i \in 1..Len(books) |-> <<books[i].id, books[i].sortIndex>>]
          = << <<2, 0>>, <<3, 1>>, <<1, 2>> >>

IsDense(S, n) == S = 0..(n - 1)

SortIndexBag(list) ==
    [i \in 1..Len(list) |-> list[i].sortIndex]

DenseList(list) ==
    /\ IsDense(Range(SortIndexBag(list)), Len(list))

StoredBookIndices ==
    [b \in PresentBooks(dbBooks) |-> dbBooks[b].sort_index]

StoredCopyIndices(bookId) ==
    [c \in InventoryOf(dbCopies, bookId) |-> dbCopies[c].sort_index]

Injective(f) == \A x, y \in DOMAIN f : f[x] = f[y] => x = y

\* C6: right after a reorder the sort indices of the reordered scope are
\* exactly 0..n-1, without gap or duplicate: in the local list when the
\* handler has run, and in the stored rows (all books; all copies of the
\* book) when the bulk upsert has completed.
C6_DenseAfterReorder ==
    /\ last.step = "handleDragEndBook" => DenseList(books)
    /\ last.step = "handleDragEndCopy"
          => DenseList(BookAt(books, last.book).copies)
    /\ ServedLast("updateBookOrder")
          => /\ Injective(StoredBookIndices)
             /\ IsDense(Range(StoredBookIndices),
                        Cardinality(PresentBooks(dbBooks)))
    /\ ServedLast("updateCopiesOrder")
          => /\ Injective(StoredCopyIndices(last.req.bookId))
             /\ IsDense(Range(StoredCopyIndices(last.req.bookId)),
                        Cardinality(InventoryOf(dbCopies, last.req.bookId)))

\* C7: when updateBookOrder has persisted its pairs, persisting the same
\* pairs once more leaves every stored row of books as it is.
C7_ReorderIdempotent ==
    ServedLast("updateBookOrder") => Upsert(dbBooks, last.req.rows) = dbBooks

\* C7 witness: an order that changed the stored indices has been persisted
C7_Witness ==
    /\ ServedLast("updateBookOrder")
    /\ Len(last.req.rows) = 3
    /\ dbBooks # SeedBooks

\* the listed copies of the local list, book by book
ListedShown ==
    {<<books[i].id,
       {books[i].copies[j].id : j \in {k \in 1..Len(books[i].copies) :
                                          books[i].copies[k].isListed}}>> :
        i \in {k \in 1..Len(books) :
                  \E j \in 1..Len(books[k].copies) : books[k].copies[j].isListed}}

\* C10: with "listed only" on, the view shows exactly the listed copies and
\* exactly the books with at least one; with it off, every book and every
\* copy; switching the filter never changes the book list itself.
C10_ListedOnlyView ==
    /\ [](/\ showListedOnly => Shown(DisplayedBooks) = ListedShown
          /\ ~showListedOnly => DisplayedBooks = books)
    /\ [][showListedOnly' # showListedOnly => books' = books]_vars

\* C10 witness: one copy has been toggled to listed, the filter is switched
\* on, and only that copy and its book are shown out of three books
C10_Witness ==
    /\ last.step = "setShowListedOnly" /\ showListedOnly
    /\ Len(books) = 3
    /\ Len(DisplayedBooks) = 1
    /\ Len(DisplayedBooks[1].copies) = 1
    /\ Len(BookAt(books, DisplayedBooks[1].id).copies) = 2

-----------------------------------------------------------------------------
(* ISBN lookup: handleLookup, the lookupBook flow it awaits, and the       *)
(* modals it opens.                                                        *)

MaxIsbnLen == 3

IsbnChars == {"1", "-"}

\* what can be typed or scanned into the lookup field
InputIsbns == SeqsUpTo(IsbnChars, MaxIsbnLen)

\* ISBNs of local books: the manual-add form stores any string
StoredIsbns == {<<"1">>, <<"1", "1">>, <<"1", "-", "1">>}

\* isbnToUse.replace(/-/g, "")
StripHyphens(str) == SelectSeq(str, LAMBDA ch : ch # "-")

LookupBook(i, isbn) ==
    [id |-> i, title |-> <<"a">>, isbn |-> isbn, sortIndex |-> i - 1,
     authors |-> <<>>, copies |-> <<>>]

LookupLists ==
    {<<>>} \cup {<<LookupBook(1, x)>> : x \in StoredIsbns}
           \cup {<<LookupBook(1, x), LookupBook(2, y)>> : x, y \in StoredIsbns}

\* the modal state of the page, all closed
ClosedUi ==
    [isAddCopyOpen |-> FALSE, isDuplicateAdd |-> FALSE, addingCopyToBook |-> Null,
     openAccordionId |-> Null, isManualAddOpen |-> FALSE,
     initialBookData |-> <<>>, isLookingUp |-> FALSE]

LookupInit ==
    /\ books \in LookupLists
    /\ isLoading = FALSE
    /\ searchTerm = <<>>
    /\ sortOption = "manual"
    /\ showListedOnly = FALSE
    /\ ui = ClosedUi
    /\ dbBooks = <<>> /\ dbCopies = <<>> /\ ids = NoValue
    /\ calls = EmptyBag /\ toasts = <<>> /\ events = 0
    /\ last = [step |-> "init"]
    /\ arg = NoValue /\ res = NoValue /\ pc = "lookup"

\* books.find(book => book.isbn === isbn): the first match, or 0
FindByIsbn(list, isbn) ==
    IF \E i \in 1..Len(list) : list[i].isbn = isbn
    THEN CHOOSE i \in 1..Len(list) :
            list[i].isbn = isbn /\ \A j \in 1..(i - 1) : list[j].isbn # isbn
    ELSE 0

\* setIsDuplicateAdd(true); setOpenAccordionId(id); openAddCopy(book), whose
\* first statement is setIsDuplicateAdd(false)
OpenDuplicate(u, book) ==
    [u EXCEPT !.isDuplicateAdd = FALSE, !.openAccordionId = book.id,
              !.addingCopyToBook = book.id, !.isAddCopyOpen = TRUE]

\* handleLookup(isbn) up to its return or its await
HandleLookup(isbn) ==
    /\ BagCardinality(calls) < MaxInFlight
    /\ ~ui.isAddCopyOpen /\ ~ui.isManualAddOpen
    /\ LET sanitizedIsbn == StripHyphens(isbn)
           found == FindByIsbn(books, sanitizedIsbn)
       IN  IF isbn = <<>>
           THEN /\ toasts' = Toast("ISBN required")
                /\ last' = [step |-> "handleLookup", isbn |-> isbn,
                            sent |-> FALSE]
                /\ UNCHANGED <<ui, calls>>
           ELSE IF found # 0
           THEN /\ ui' = OpenDuplicate(ui, books[found])
                /\ last' = [step |-> "handleLookup", isbn |-> isbn,
                            sent |-> FALSE]
                /\ UNCHANGED <<toasts, calls>>
           ELSE /\ ui' = [ui EXCEPT !.isLookingUp = TRUE]
                /\ calls' = Send(Call("lookup", "lookupBook",
                                      [isbn |-> sanitizedIsbn], books))
                /\ last' = [step |-> "handleLookup", isbn |-> isbn,
                            sent |-> TRUE]
                /\ UNCHANGED toasts
    /\ UNCHANGED <<books, isLoading, searchTerm, sortOption, showListedOnly,
                   storeVars, events, pureVars>>

\* lookupBookFlow: the ISBN of the volume found, which is the one asked for
\* or another identifier of the same volume
ServeLookupBook ==
    \E c \in Sent("lookupBook") :
        /\ \E isbn \in {c.req.isbn} \cup StoredIsbns :
              calls' = Resolve(c, <<isbn>>)
        /\ last' = [step |-> "served", op |-> c.op, h |-> c.h, req |-> c.req]
        /\ UNCHANGED <<viewVars, storeVars, toasts, events, pureVars>>

\* lookupBookFlow throws: no API key, no volume, no output
LookupError ==
    \E c \in Sent("lookupBook") :
        /\ calls' = Reject(c)
        /\ last' = [step |-> "failed", op |-> c.op, h |-> c.h, req |-> c.req]
        /\ UNCHANGED <<viewVars, storeVars, toasts, events, pureVars>>

\* a second check against the ISBN that was asked for
QueriedIsbn(c) == c.req.isbn

\* bookData.isbn, the ISBN of the second check
ReturnedIsbn(c) == c.data[1]

\* handleLookup after lookupBook: the second check, against bookData.isbn,
\* or the toast of the catch; finally setIsLookingUp(false)
LookupDone ==
    \E c \in Settled("lookupBook") :
        /\ IF c.st = "ok"
           THEN LET found == FindByIsbn(c.ctx, ReturnedIsbn(c))
                IN  /\ ui' = IF found # 0
                             THEN [OpenDuplicate(ui, c.ctx[found])
                                      EXCEPT !.isLookingUp = FALSE]
                             ELSE [ui EXCEPT !.initialBookData = c.data[1],
                                             !.isManualAddOpen = TRUE,
                                             !.isLookingUp = FALSE]
                    /\ toasts' = toasts
           ELSE /\ ui' = [ui EXCEPT !.isLookingUp = FALSE]
                /\ toasts' = ErrorToast("Lookup Failed", c)
        /\ calls' = Drop(c)
        /\ last' = Resumed(c)
        /\ UNCHANGED <<books, isLoading, searchTerm, sortOption, showListedOnly,
                       storeVars, events, pureVars>>

\* the "Add Copy" button of a book: onClick={() => openAddCopy(book)}
OpenAddCopy(bookId) ==
    /\ ~ui.isAddCopyOpen /\ ~ui.isManualAddOpen
    /\ bookId \in BookIdsOf(books)
    /\ ui' = [ui EXCEPT !.isDuplicateAdd = FALSE, !.addingCopyToBook = bookId,
                        !.isAddCopyOpen = TRUE]
    /\ last' = [step |-> "openAddCopy", id |-> bookId]
    /\ UNCHANGED <<books, isLoading, searchTerm, sortOption, showListedOnly,
                   storeVars, calls, toasts, events, pureVars>>

\* onClose of the add-copy modal and handleManualAddClose
CloseModals ==
    /\ ui.isAddCopyOpen \/ ui.isManualAddOpen
    /\ ui' = [ui EXCEPT !.isAddCopyOpen = FALSE, !.isManualAddOpen = FALSE,
                        !.initialBookData = <<>>]
    /\ last' = [step |-> "closeModals"]
    /\ UNCHANGED <<books, isLoading, searchTerm, sortOption, showListedOnly,
                   storeVars, calls, toasts, events, pureVars>>

LookupNext ==
    \/ \E isbn \in InputIsbns : HandleLookup(isbn)
    \/ \E b \in BookIds : OpenAddCopy(b)
    \/ ServeLookupBook
    \/ LookupError
    \/ LookupDone
    \/ CloseModals

SpecLookup == LookupInit /\ [][LookupNext]_vars

\* a local book whose ISBN is the one given, hyphens aside
PresentLocally(isbn) ==
    {i \in 1..Len(books) : StripHyphens(books[i].isbn) = StripHyphens(isbn)}

\* C3: when handleLookup is invoked with an ISBN that a local book already
\* has (exact match, hyphens aside), that invocation issues no lookupBook
\* request and the add-copy modal is opened for the existing book.
C3_DuplicateSkipsLookup ==
    (last.step = "handleLookup" /\ last.isbn # <<>>
     /\ PresentLocally(last.isbn) # {})
        => /\ ~last.sent
           /\ ui.isAddCopyOpen
           /\ \E i \in PresentLocally(last.isbn) :
                 ui.addingCopyToBook = books[i].id

-----------------------------------------------------------------------------
(* Listing the collection: getBooks of the mapper-based gateway and the    *)
(* user-scoped getBooks of services/book-service.ts, over a store that     *)
(* holds the books of more than one owner.                                 *)

MaxListBooks == 3
MaxListCopies == 2

Owners == {"u1", "u2"}
Actor == "u1"
NoSession == ""

ListBookRows ==
    {NoRow} \cup [user_id : Owners, sort_index : 0..1]

ListCopyRows ==
    {NoRow} \cup [book_id : {1}, sort_index : 0..1, is_listed : {FALSE}]

\* the stores the foreign key admits
ListStores ==
    {st \in [b : [1..MaxListBooks -> ListBookRows],
             c : [1..MaxListCopies -> ListCopyRows]] :
        \A id \in PresentCopies(st.c) : st.c[id].book_id \in PresentBooks(st.b)}

ListInit ==
    /\ \E st \in ListStores : dbBooks = st.b /\ dbCopies = st.c
    /\ arg \in [session : {NoSession, Actor}, rls : BOOLEAN]
    /\ res = NoValue
    /\ pc = "list"
    /\ books = <<>> /\ isLoading = FALSE /\ searchTerm = <<>>
    /\ sortOption = "manual" /\ showListedOnly = FALSE /\ ui = NoValue
    /\ ids = NoValue /\ calls = EmptyBag /\ toasts = <<>> /\ events = 0
    /\ last = [step |-> "init"]

\* the rows a request of the session can see: all of them, or under row
\* level security those of its user
Visible(tbl, session, rls) ==
    [id \in DOMAIN tbl |->
        IF rls /\ tbl[id] # NoRow /\ tbl[id].user_id # session THEN NoRow
        ELSE tbl[id]]

\* key.replace(/(_\w)/g, k => k[1].toUpperCase())
CamelKeyOf(k) ==
    CASE k = "user_id" -> "userId"
      [] k = "sort_index" -> "sortIndex"
      [] k = "book_id" -> "bookId"
      [] k = "is_listed" -> "isListed"
      [] OTHER -> k

\* toCamelCase(obj): every key renamed, every value kept
toCamelCase(obj) ==
    [ck \in {CamelKeyOf(k) : k \in DOMAIN obj} |->
        obj[CHOOSE k \in DOMAIN obj : CamelKeyOf(k) = ck]]

\* .eq('user_id', userId)
OwnedBy(tbl, userId) ==
    {id \in PresentBooks(tbl) : tbl[id].user_id = userId}

\* getBooks of services/book-service.ts: [] without a session; else the
\* user's books by sort_index, the nested inventory as the database
\* returns it
getBooksScoped(session, bookTbl, copyTbl) ==
    IF session = NoSession THEN {<<>>}
    ELSE LET owned == OwnedBy(bookTbl, session)
             copyOrders(b) == Perms(InventoryOf(copyTbl, b))
             allCopyOrders == UNION {copyOrders(b) : b \in owned}
             choices == {f \in [owned -> allCopyOrders] :
                            \A b \in owned : f[b] \in copyOrders(b)}
         IN  {[i \in 1..Len(order) |->
                 [k \in DOMAIN toCamelCase(RowWithId(bookTbl, order[i]))
                        \cup {"copies"} |->
                     IF k = "copies"
                     THEN [j \in 1..Len(f[order[i]]) |->
                             toCamelCase(RowWithId(copyTbl, f[order[i]][j]))]
                     ELSE toCamelCase(RowWithId(bookTbl, order[i]))[k]]] :
              order \in OrderedBy(bookTbl, owned), f \in choices}

\* getBooks() of the mapper-based gateway returns
ListBooksMapper ==
    /\ pc = "list"
    /\ \E list \in getBooks(Visible(dbBooks, arg.session, arg.rls), dbCopies) :
          res' = [v |-> "mapper", st |-> "ok", list |-> list]
    /\ pc' = "done"
    /\ UNCHANGED <<viewVars, storeVars, asyncVars, arg>>

\* getBooks() of services/book-service.ts returns
ListBooksScoped ==
    /\ pc = "list"
    /\ \E list \in getBooksScoped(arg.session, dbBooks, dbCopies) :
          res' = [v |-> "scoped", st |-> "ok", list |-> list]
    /\ pc' = "done"
    /\ UNCHANGED <<viewVars, storeVars, asyncVars, arg>>

\* booksError: throw new Error(booksError.message); the scoped version
\* sends no request without a session
ListBooksError ==
    /\ pc = "list"
    /\ \E v \in {"mapper", "scoped"} :
          /\ v = "scoped" => arg.session # NoSession
          /\ res' = [v |-> v, st |-> "err", list |-> <<>>]
    /\ pc' = "done"
    /\ UNCHANGED <<viewVars, storeVars, asyncVars, arg>>

ListNext ==
    \/ ListBooksMapper
    \/ ListBooksScoped
    \/ ListBooksError

SpecList == ListInit /\ [][ListNext]_vars

Ascending(list) ==
    \A i, j \in 1..Len(list) : i < j => list[i].sortIndex <= list[j].sortIndex

\* C11: with a session, the list getBooks returns holds every book of the
\* actor and no book of another owner, in ascending sortIndex order, each
\* with all of its copies in ascending sortIndex order.
C11_ListBooksOwnedOrdered ==
    (pc = "done" /\ res.st = "ok" /\ arg.session = Actor) =>
        /\ Len(res.list) = Cardinality(OwnedBy(dbBooks, Actor))
        /\ BookIdsOf(res.list) = OwnedBy(dbBooks, Actor)
        /\ Ascending(res.list)
        /\ \A i \in 1..Len(res.list) :
              /\ CopyIdsOf(res.list[i]) = InventoryOf(dbCopies, res.list[i].id)
              /\ Len(res.list[i].copies) =
                    Cardinality(InventoryOf(dbCopies, res.list[i].id))
              /\ Ascending(res.list[i].copies)

\* C18: without a session getBooks fails (Unauthenticated) and returns no
\* list.
C18_ListBooksUnauthenticated ==
    (pc = "done" /\ arg.session = NoSession) => res.st = "err"

\* C12: updateBookDetails changes exactly the stored columns whose fields
\* the details carry; every other column of the row keeps its value, in
\* particular sort_index under an edit through the form; no other book row
\* changes; and the payload has a key only for the fields that are defined.
C12_PartialUpdate ==
    [][(last'.step = "served" /\ last'.op = "updateBookDetails") =>
          LET id == last'.req.id
              row == last'.req.row
          IN  /\ DOMAIN row = {DbKeyOf(k) : k \in DOMAIN EditBookForm}
              /\ \A b \in BookIds \ {id} : dbBooks'[b] = dbBooks[b]
              /\ dbCopies' = dbCopies
              /\ dbBooks[id] = NoRow => dbBooks'[id] = NoRow
              /\ dbBooks[id] # NoRow =>
                    /\ DOMAIN dbBooks'[id] = DOMAIN dbBooks[id] \cup DOMAIN row
                    /\ \A k \in DOMAIN row : dbBooks'[id][k] = row[k]
                    /\ \A k \in DOMAIN dbBooks[id] \ DOMAIN row :
                          dbBooks'[id][k] = dbBooks[id][k]
                    /\ dbBooks'[id].sort_index = dbBooks[id].sort_index]_vars

\* C12 witness: the title of a book at sort_index 1 has been replaced
C12_Witness ==
    /\ ServedLast("updateBookDetails")
    /\ dbBooks[last.req.id] # NoRow
    /\ dbBooks[last.req.id].title = EditBookForm.title
    /\ dbBooks[last.req.id].sort_index = 1

\* C13: once saveCopy(bookId, copy) has succeeded the row with copy.id is
\* stored with book_id = bookId, whatever bookId the copy carries; and in
\* every reachable state each copy row belongs to exactly one stored book.
C13_CopyBelongsToOneBook ==
    /\ \A b, b2 \in BookIds, c \in CopyIds, f \in BOOLEAN :
          saveCopyPayload(b, ModalCopy(b2, c, 0, f)).book_id = b
    /\ ServedLast("saveCopy") =>
          /\ dbCopies[last.req.id] # NoRow
          /\ dbCopies[last.req.id].book_id = last.req.row.book_id
    /\ \A id \in PresentCopies(dbCopies) :
          /\ Has(dbCopies[id], "book_id")
          /\ dbCopies[id].book_id \in PresentBooks(dbBooks)

\* C14: handleToggleListed upserts the existing copy with only isListed
\* changed, and on success patches only that copy inside its book: every
\* other copy, every other book and the order of books and copies stay as
\* they are, and no refetch is issued.
C14_ToggleFrame ==
    [][/\ last'.step = "handleToggleListed" =>
            /\ books' = books
            /\ \E c \in BagToSet(calls') :
                  /\ c.h = "toggle" /\ c.st = "sent" /\ c.req.id = last'.id
                  /\ calls' = Send(c)
                  /\ LET copy == CopyAt(BookAt(books, c.req.bookId), c.req.id)
                     IN  /\ c.req.copy = [copy EXCEPT !.isListed = ~copy.isListed]
                         /\ c.req.row = saveCopyPayload(c.req.bookId, c.req.copy)
       /\ \A c \in BagToSet(calls) :
            (/\ c.h = "toggle" /\ c.st = "ok"
             /\ last'.step = "resumed" /\ last'.h = "toggle"
             /\ calls' = Drop(c))
            => books' = PatchCopy(books, c.req.bookId, c.req.id, c.req.copy)]_vars

DragHandlers == {"dragBook", "dragCopy"}
OrderOps == {"updateBookOrder", "updateCopiesOrder"}

\* C15: a reorder is applied to the local list while its persistence call
\* is still in flight; when that call fails the handler issues a refetch and
\* rolls nothing back itself; the refetch reads the authoritative list of
\* the backend, and when it completes the local list is that list.
C15_OptimisticReorderReload ==
    [][/\ last'.step \in {"handleDragEndBook", "handleDragEndCopy"} =>
            /\ books' # books
            /\ \E c \in BagToSet(calls') :
                  c.h \in DragHandlers /\ c.op \in OrderOps /\ c.st = "sent"
                  /\ calls' = Send(c)
       /\ (/\ last'.step = "resumed" /\ last'.h \in DragHandlers
           /\ last'.op \in OrderOps /\ last'.st = "err") =>
            /\ books' = books
            /\ \E c \in BagToSet(calls), d \in BagToSet(calls') :
                  /\ c.h = last'.h /\ c.op = last'.op /\ c.st = "err"
                  /\ d.h = last'.h /\ d.op = "getBooks" /\ d.st = "sent"
                  /\ calls' = Replace(c, d)
       /\ (/\ last'.step = "served" /\ last'.op = "getBooks"
           /\ last'.h \in DragHandlers) =>
            \E c \in BagToSet(calls), d \in BagToSet(calls') :
                  /\ c.h = last'.h /\ c.op = "getBooks" /\ c.st = "sent"
                  /\ d = [c EXCEPT !.st = "ok", !.data = d.data]
                  /\ calls' = Replace(c, d)
                  /\ d.data \in getBooks(dbBooks, dbCopies)
       /\ \A c \in BagToSet(calls) :
            (/\ c.h \in DragHandlers /\ c.op = "getBooks" /\ c.st = "ok"
             /\ last'.step = "resumed" /\ last'.h = c.h /\ last'.op = "getBooks"
             /\ last'.st = "ok" /\ calls' = Drop(c))
            => books' = c.data]_vars

\* C15 witness: a book reorder failed to persist, the refetch has completed
\* and the local list is the stored order again
C15_Witness ==
    /\ last.step = "resumed" /\ last.h = "dragBook" /\ last.op = "getBooks"
    /\ last.st = "ok"
    /\ dbBooks = SeedBooks
    /\ Len(books) = 3
    /\ books \in getBooks(dbBooks, dbCopies)

\* a handler's write has succeeded and the handler resumes in the step taken
WriteSucceeded(handlers) ==
    /\ last'.step = "resumed" /\ last'.h \in handlers
    /\ last'.op # "getBooks" /\ last'.st = "ok"

\* the step replaces the succeeded write by a getBooks call of the handler
IssuesRefetch ==
    \E c \in BagToSet(calls), d \in BagToSet(calls') :
        /\ c.h = last'.h /\ c.op = last'.op /\ c.st = "ok"
        /\ d.h = last'.h /\ d.op = "getBooks" /\ d.st = "sent"
        /\ calls' = Replace(c, d)

\* the step ends the succeeded write and starts no call
IssuesNothing ==
    \E c \in BagToSet(calls) :
        /\ c.h = last'.h /\ c.op = last'.op /\ c.st = "ok"
        /\ calls' = Drop(c)

\* C16 as stated: add book, edit book, save copy, delete book and delete
\* copy refetch the whole list after their backend call succeeds, and
\* toggle-listed is the only one that updates the local list without it.
C16_AllButToggleRefetch ==
    [][/\ WriteSucceeded({"addBook", "updateBook", "saveCopy", "deleteBook",
                          "deleteCopy"}) => IssuesRefetch
       /\ WriteSucceeded({"toggle"}) => IssuesNothing]_vars

\* C16 amended: add book, edit book, save copy and delete copy refetch the
\* whole list after their backend call succeeds and leave the local list to
\* that refetch; delete book and toggle-listed start no refetch: delete book
\* removes the book from the local list, toggle-listed replaces the list.
C16_RefetchAfterWrite ==
    [][/\ WriteSucceeded(RefetchingHandlers) => IssuesRefetch /\ books' = books
       /\ WriteSucceeded({"deleteBook", "toggle"}) => IssuesNothing
       /\ WriteSucceeded({"deleteBook"}) =>
            \E b \in BookIds :
                books' = SelectSeq(books, LAMBDA x : x.id # b)]_vars

\* C16 witness: deleteBook has succeeded, the book is gone from the local
\* list and no getBooks call has been started
C16_Witness ==
    /\ last.step = "resumed" /\ last.h = "deleteBook" /\ last.st = "ok"
    /\ Len(books) = 2
    /\ \A c \in BagToSet(calls) : c.op # "getBooks"

\* the handlers of C17, and the steps in which they start
PlainHandlers ==
    {"fetch", "addBook", "updateBook", "saveCopy", "deleteBook", "deleteCopy",
     "toggle"}
PlainHandlerSteps ==
    {"mount", "handleAddBook", "handleUpdateBook", "handleSaveCopy",
     "handleDeleteBook", "handleDeleteCopy", "handleToggleListed"}

\* the title of the notification a failed call is reported under
CaughtTitle(h, op) ==
    IF op = "getBooks" THEN "Error Fetching Collection" ELSE ErrorTitle(h)

\* C17: add book, update book, save copy, delete book, delete copy, toggle
\* listed and fetch do not change the local list before their gateway call
\* settles; when the call fails (their write, or the getBooks of their
\* refetch) the failure is caught by the handler, a destructive
\* notification whose description is the error's message is raised, and
\* the local list is left as it is.
C17_FailureNotifiesKeepsList ==
    [][/\ last'.step \in PlainHandlerSteps => books' = books
       /\ (/\ last'.step = "resumed" /\ last'.st = "err"
           /\ last'.h \in PlainHandlers) =>
            /\ books' = books
            /\ \E c \in BagToSet(calls) :
                  /\ c.h = last'.h /\ c.op = last'.op /\ c.st = "err"
                  /\ calls' = Drop(c)
                  /\ \E i \in DOMAIN toasts' :
                        toasts'[i] = [title |-> CaughtTitle(c.h, c.op),
                                      description |-> ErrorOf(c.op).message,
                                      variant |-> "destructive"]]_vars

\* C17 witness: the saveCopy of a toggle has failed, the notification is up
\* and the copy is still shown as it was
C17_Witness ==
    /\ last.step = "resumed" /\ last.h = "toggle" /\ last.st = "err"
    /\ toasts = <<[title |-> "Error Updating Copy",
                   description |-> ErrorOf("saveCopy").message,
                   variant |-> "destructive"]>>
    /\ Len(books) = 3
    /\ \A j \in DOMAIN books[1].copies : ~books[1].copies[j].isListed

\* the steps in which an edit of a copy or of a book is issued
EditSteps == {"handleSaveCopy", "handleToggleListed", "handleUpdateBook"}

\* C19: an edit is always sent as one more call, whatever is in flight for
\* the same copy or book already; and when the backend completes a write of
\* a row, the row holds every column of that write's payload, whatever
\* earlier or other writes in flight have stored: the last write to
\* complete wins.
C19_LastCompletedWriteWins ==
    [][/\ last'.step \in EditSteps =>
            \E c \in BagToSet(calls') :
                /\ c.st = "sent" /\ c.op \in {"saveCopy", "updateBookDetails"}
                /\ c.req.id = last'.id
                /\ calls' = calls (+) SetToBag({c})
       /\ (last'.step = "served" /\ last'.op = "saveCopy") =>
            LET r == last'.req.row
            IN  /\ dbCopies'[r.id] # NoRow
                /\ \A k \in DOMAIN Columns(r) : dbCopies'[r.id][k] = r[k]
                /\ \A i \in CopyIds \ {r.id} : dbCopies'[i] = dbCopies[i]
       /\ (/\ last'.step = "served" /\ last'.op = "updateBookDetails"
           /\ dbBooks[last'.req.id] # NoRow) =>
            /\ \A k \in DOMAIN last'.req.row :
                  dbBooks'[last'.req.id][k] = last'.req.row[k]
            /\ \A i \in BookIds \ {last'.req.id} : dbBooks'[i] = dbBooks[i]]_vars

\* C19 witness: two saves of the same copy with different isListed were in
\* flight; both were accepted, and the row holds the value of the one the
\* backend completed last
C19_Witness ==
    /\ last.step = "served" /\ last.op = "saveCopy" /\ last.h = "toggle"
    /\ \E c \in BagToSet(calls) :
          /\ c.op = "saveCopy" /\ c.h = "saveCopy" /\ c.st = "ok"
          /\ c.req.row.id = last.req.row.id
          /\ c.req.row.is_listed # last.req.row.is_listed
          /\ dbCopies[c.req.row.id].is_listed = last.req.row.is_listed

\* C20: in every state of the store no two books (all of one owner here)
\* have the same sort_index.
C20_UniqueSortIndex ==
    \A x, y \in PresentBooks(dbBooks) :
        dbBooks[x].sort_index = dbBooks[y].sort_index => x = y

-----------------------------------------------------------------------------
(* Manual-add form: components/modals/manual-add-modal.tsx. The authors     *)
(* input is typed, validated, split into the authors array, saved as a row  *)
(* and read back.                                                           *)

MaxFormLen == 4

\* what can be typed into the authors input
FormAuthors == SeqsUpTo(AuthorChars, MaxFormLen)

FormInputs == {[title |-> <<"t">>, authors |-> a] : a \in FormAuthors}

\* bookFormSchema: title: z.string().min(1), authors: z.string().min(1)
bookFormSchema(data) == Len(data.title) >= 1 /\ Len(data.authors) >= 1

\* onSubmit: data.authors.split(",").map(a => a.trim())
\*                       .filter(a => a.length > 0)
authorsArray(data) ==
    SeqFilter(SeqMap(Split(data.authors, ","), Trim), LAMBDA a : Len(a) > 0)

\* the Book onSubmit passes to onSaveBook
bookToSave(data) == [title |-> data.title, authors |-> authorsArray(data)]

FormInit ==
    /\ arg \in FormInputs
    /\ res = NoValue
    /\ pc = "form"
    /\ dbBooks = <<>> /\ dbCopies = <<>> /\ books = <<>>
    /\ isLoading = FALSE /\ searchTerm = <<>> /\ sortOption = "manual"
    /\ showListedOnly = FALSE /\ ui = NoValue
    /\ ids = NoValue /\ calls = EmptyBag /\ toasts = <<>> /\ events = 0 /\ last = NoValue

\* handleSubmit(onSubmit) with input the resolver rejects: onSubmit not run
FormRejected ==
    /\ pc = "form"
    /\ ~bookFormSchema(arg)
    /\ pc' = "invalid"
    /\ UNCHANGED <<arg, res, storeVars, viewVars, asyncVars>>

\* handleSubmit(onSubmit) with valid input: onSaveBook(bookToSave)
FormSubmitted ==
    /\ pc = "form"
    /\ bookFormSchema(arg)
    /\ res' = bookToSave(arg)
    /\ pc' = "saved"
    /\ UNCHANGED <<arg, storeVars, viewVars, asyncVars>>

\* addBook / updateBookDetails: bookToDb of what the form passed
FormStored ==
    /\ pc = "saved"
    /\ res' = bookToDb(res)
    /\ pc' = "stored"
    /\ UNCHANGED <<arg, storeVars, viewVars, asyncVars>>

\* getBooks: dbToBook of the row
FormLoaded ==
    /\ pc = "stored"
    /\ res' = dbToBook(res)
    /\ pc' = "loaded"
    /\ UNCHANGED <<arg, storeVars, viewVars, asyncVars>>

FormNext == FormRejected \/ FormSubmitted \/ FormStored \/ FormLoaded

SpecForm == FormInit /\ [][FormNext]_vars

NonBlank(name) == \E i \in 1..Len(name) : ~IsSpace(name[i])

\* C21: for every authors input the form accepts, the list passed to
\* onSaveBook has at least one entry and every entry is a non-blank name;
\* and dbToBook never yields a blank author entry.
C21_AuthorsNeverEmpty ==
    /\ pc = "saved" =>
          /\ Len(res.authors) >= 1
          /\ \A i \in 1..Len(res.authors) : NonBlank(res.authors[i])
    /\ pc = "loaded" =>
          \A i \in 1..Len(res.authors) : NonBlank(res.authors[i])

\* C22: a drag-end event with no drop target, with the item dropped onto
\* itself, or with a book dropped onto a copy or a copy onto a book changes
\* nothing: not the local list, not the view state, and no gateway call is
\* sent.
C22_DragNoop ==
    [][\A active \in DragItems, over \in DropTargets :
          (/\ \/ NoTarget(active, over)
              \/ OntoItself(active, over)
              \/ CrossType(active, over)
           /\ HandleDragEnd(active, over))
          => UNCHANGED <<viewVars, storeVars, calls, toasts>>]_vars

\* C22 witness: a book was dropped onto a copy (or a copy onto a book) while
\* copies were on screen, and the handler has returned
C22_Witness ==
    /\ last.step = "handleDragEndNoop" /\ last.why = "cross-type"
    /\ Len(books) = 3 /\ Len(books[1].copies) = 2
    /\ calls = EmptyBag

\* the modal state a lookup can open
FlowState(u) ==
    <<u.isAddCopyOpen, u.addingCopyToBook, u.isManualAddOpen, u.initialBookData>>

C28_DuplicateNotice ==
    /\ (last.step = "handleLookup" /\ last.isbn # <<>> /\ ~last.sent)
          => ui.isAddCopyOpen /\ ui.isDuplicateAdd
    /\ (/\ last.step = "resumed" /\ last.op = "lookupBook" /\ last.st = "ok"
        /\ ~ui.isManualAddOpen)
          => ui.isAddCopyOpen /\ ui.isDuplicateAdd
    /\ last.step = "openAddCopy" => ui.isAddCopyOpen /\ ~ui.isDuplicateAdd

-----------------------------------------------------------------------------
(* Scanner modal: components/modals/scanner-modal.tsx, in its two versions. *)
(* One effect run creates a closure with its own flag and success callback; *)
(* getCameras() and the 100 ms timer of the cleanup complete later; the     *)
(* scanning library delivers decode successes to the callback of a scanner  *)
(* that is running or has been asked to stop but has not stopped yet.       *)

MaxRuns == 3

Runs == 1..MaxRuns

\* the version with html5QrCodeRef and scannerActive (1), and the version
\* with one Html5Qrcode per effect run and scannerRunning (2)
Versions == {1, 2}

IdleScanner == [st |-> "idle", cb |-> 0]

ScannerInit ==
    /\ arg \in [version : Versions]
    /\ ui = [isOpen |-> FALSE, seenOpen |-> FALSE, dirty |-> FALSE,
             run |-> 0, runs |-> 0, ref |-> 0, insts |-> 0,
             inst |-> [r \in Runs |-> 0],
             flag |-> [r \in Runs |-> FALSE],
             cleaned |-> {}, pending |-> {}, timers |-> {},
             lib |-> [i \in Runs |-> IdleScanner],
             scans |-> [r \in Runs |-> 0],
             late |-> FALSE]
    /\ res = NoValue /\ pc = "scanner"
    /\ dbBooks = <<>> /\ dbCopies = <<>> /\ books = <<>>
    /\ isLoading = FALSE /\ searchTerm = <<>> /\ sortOption = "manual"
    /\ showListedOnly = FALSE
    /\ ids = NoValue /\ calls = EmptyBag /\ toasts = <<>> /\ events = 0
    /\ last = [step |-> "init"]

ScannerFrame ==
    UNCHANGED <<books, isLoading, searchTerm, sortOption, showListedOnly,
                storeVars, calls, events, pureVars>>

\* the effect's dependencies [isOpen, onScan, ...] differ from those of
\* its last run
EffectPending == ui.seenOpen # ui.isOpen \/ ui.dirty

\* html5QrCode.stop(): asynchronous; rejects when the scanner is not running
StopScanner(lib, i) ==
    IF i = 0 \/ lib[i].st # "scanning" THEN lib
    ELSE [lib EXCEPT ![i].st = "stopping"]

\* the page opens the scanner: setScannerOpen(true)
ScannerOpen ==
    /\ pc = "scanner"
    /\ ~ui.isOpen /\ ~EffectPending /\ ui.runs < MaxRuns
    /\ ui' = [ui EXCEPT !.isOpen = TRUE]
    /\ last' = [step |-> "open"]
    /\ UNCHANGED toasts /\ ScannerFrame

\* Cancel, or the dialog's onOpenChange: onClose()
ScannerCancel ==
    /\ pc = "scanner"
    /\ ui.isOpen /\ ~EffectPending
    /\ ui' = [ui EXCEPT !.isOpen = FALSE]
    /\ last' = [step |-> "cancel"]
    /\ UNCHANGED toasts /\ ScannerFrame

\* the page renders again while the modal is open: handleScan, the onScan
\* prop, is a new function, so the effect's dependencies have changed
PageRerender ==
    /\ pc = "scanner"
    /\ ui.isOpen /\ ~EffectPending /\ ui.runs < MaxRuns
    /\ ui' = [ui EXCEPT !.dirty = TRUE]
    /\ last' = [step |-> "rerender"]
    /\ UNCHANGED toasts /\ ScannerFrame

\* the cleanup of effect run r. Version 1: setTimeout(stopScanner, 100).
\* Version 2: if (scannerRunning) { scannerRunning = false; setTimeout(...) }
Cleanup(u, version, r) ==
    IF r = 0 THEN u
    ELSE IF version = 1
    THEN [u EXCEPT !.cleaned = @ \cup {r}, !.timers = @ \cup {r}]
    ELSE [u EXCEPT !.cleaned = @ \cup {r},
                   !.timers = IF u.flag[r] THEN @ \cup {r} ELSE @,
                   !.flag[r] = FALSE]

\* stopScanner() of version 1: stop the scanner of the ref, clear the ref
StopByRef(u) ==
    [u EXCEPT !.lib = StopScanner(u.lib, u.ref), !.ref = 0]

\* the effect body with the modal closed
EffectClosed(u, version) ==
    [(IF version = 1 THEN StopByRef(u) ELSE u) EXCEPT !.run = 0]

\* the effect body with the modal open: the scanner of the ref (version 1)
\* or a new one (version 2), a fresh flag set to true, getCameras() pending
EffectOpen(u, version) ==
    LET r == u.runs + 1
        fresh == version = 2 \/ u.ref = 0
        i == IF fresh THEN u.insts + 1 ELSE u.ref
    IN  [u EXCEPT !.run = r, !.runs = r,
                  !.insts = IF fresh THEN i ELSE @,
                  !.ref = IF version = 1 THEN i ELSE @,
                  !.inst[r] = i,
                  !.flag[r] = TRUE,
                  !.pending = @ \cup {r}]

\* React runs the cleanup of the previous run, then the effect
RunEffect ==
    /\ pc = "scanner"
    /\ EffectPending
    /\ LET cleaned == Cleanup(ui, arg.version, ui.run)
           seen == [cleaned EXCEPT !.seenOpen = ui.isOpen, !.dirty = FALSE]
       IN  ui' = IF ui.isOpen THEN EffectOpen(seen, arg.version)
                 ELSE EffectClosed(seen, arg.version)
    /\ last' = [step |-> "effect"]
    /\ UNCHANGED toasts /\ ScannerFrame

\* getCameras() of run r resolves: html5QrCode.start(..., callback of r),
\* which rejects ("Scanner Error") unless that scanner is idle and the
\* dialog, with the region the video is rendered in, is on screen
CamerasResolved(r) ==
    /\ pc = "scanner"
    /\ r \in ui.pending
    /\ LET i == ui.inst[r]
       IN  IF ui.lib[i].st = "idle" /\ ui.isOpen
           THEN /\ ui' = [ui EXCEPT !.pending = @ \ {r},
                                    !.lib[i] = [st |-> "scanning", cb |-> r]]
                /\ toasts' = toasts
           ELSE /\ ui' = [ui EXCEPT !.pending = @ \ {r}]
                /\ toasts' = Toast("Scanner Error")
    /\ last' = [step |-> "start", run |-> r]
    /\ ScannerFrame

\* getCameras() of run r rejects: no camera, or permission denied
CamerasRejected(r) ==
    /\ pc = "scanner"
    /\ r \in ui.pending
    /\ ui' = [ui EXCEPT !.pending = @ \ {r}]
    /\ toasts' = Toast("Camera Error")
    /\ last' = [step |-> "no camera", run |-> r]
    /\ ScannerFrame

\* the timer of the cleanup of run r fires. Version 1: stopScanner(), on the
\* scanner the ref holds by then. Version 2: html5QrCode.stop() of run r.
StopTimer(r) ==
    /\ pc = "scanner"
    /\ r \in ui.timers
    /\ ui' = IF arg.version = 1
             THEN [StopByRef(ui) EXCEPT !.timers = @ \ {r}]
             ELSE [ui EXCEPT !.timers = @ \ {r},
                             !.lib = StopScanner(ui.lib, ui.inst[r])]
    /\ last' = [step |-> "timer", run |-> r]
    /\ UNCHANGED toasts /\ ScannerFrame

\* a stop() completes: the scanner delivers nothing any more
StopDone(i) ==
    /\ pc = "scanner"
    /\ ui.lib[i].st = "stopping"
    /\ ui' = [ui EXCEPT !.lib[i] = IdleScanner]
    /\ last' = [step |-> "stopped", inst |-> i]
    /\ UNCHANGED toasts /\ ScannerFrame

\* the library delivers a decode success of scanner i to the callback it was
\* started with: if (flag) { flag = false; onScan(text); html5QrCode.stop() }
\* onScan is handleScan of the page, which closes the modal
DecodeSuccess(i) ==
    /\ pc = "scanner"
    /\ ui.lib[i].st \in {"scanning", "stopping"}
    /\ LET r == ui.lib[i].cb
       IN  /\ ui.flag[r]
           /\ ui' = [ui EXCEPT !.flag[r] = FALSE,
                               !.scans[r] = @ + 1,
                               !.late = @ \/ r \in ui.cleaned,
                               !.lib = StopScanner(ui.lib, i),
                               !.isOpen = FALSE]
           /\ last' = [step |-> "onScan", run |-> r]
    /\ UNCHANGED toasts /\ ScannerFrame

\* a decode success delivered to a callback whose flag is false: ignored
DecodeIgnored(i) ==
    /\ pc = "scanner"
    /\ ui.lib[i].st \in {"scanning", "stopping"}
    /\ ~ui.flag[ui.lib[i].cb]
    /\ last' = [step |-> "ignored", run |-> ui.lib[i].cb]
    /\ UNCHANGED <<ui, toasts>> /\ ScannerFrame

ScannerNext ==
    \/ ScannerOpen
    \/ ScannerCancel
    \/ PageRerender
    \/ RunEffect
    \/ \E r \in Runs : CamerasResolved(r)
    \/ \E r \in Runs : CamerasRejected(r)
    \/ \E r \in Runs : StopTimer(r)
    \/ \E i \in Runs : StopDone(i)
    \/ \E i \in Runs : DecodeSuccess(i)
    \/ \E i \in Runs : DecodeIgnored(i)

SpecScanner == ScannerInit /\ [][ScannerNext]_vars

\* C24: within one run of the scanner modal's effect onScan is invoked at
\* most once, however many decode successes the library delivers, and it
\* is never invoked after the cleanup of that run.
C24_ScanOncePerOpening ==
    /\ \A r \in Runs : ui.scans[r] <= 1
    /\ ~ui.late

\* C25: in every state of the page the local book list is in non-decreasing
\* sortIndex order, and so is the copies list of each of its books.
C25_LocalListSorted ==
    pc \in {"mount", "ready"} =>
        /\ Ascending(books)
        /\ \A i \in 1..Len(books) : Ascending(books[i].copies)

\* C25 witness: books have been reordered by a drag, a toggle of a copy has
\* been patched into the list afterwards, and the list is sorted
C25_Witness ==
    /\ last.step = "resumed" /\ last.h = "toggle" /\ last.st = "ok"
    /\ Len(books) = 3 /\ Len(books[1].copies) = 2
    /\ books[1].copies[1].isListed \/ books[1].copies[2].isListed
    /\ Ascending(books) /\ Ascending(books[1].copies)
    /\ \E i \in 1..3 : dbBooks[i] # NoRow /\ dbBooks[i].sort_index # i - 1

\* C26: whenever the page is mounted and no gateway call, refetch included,
\* is in flight, and no failure is being reported, the local list (ids,
\* order, copies with their flags and order) is a list getBooks returns
\* from the store as it is.
C26_ViewConverges ==
    (/\ pc = "ready" /\ calls = EmptyBag
     /\ \A i \in DOMAIN toasts : ~Has(toasts[i], "variant"))
        => books \in getBooks(dbBooks, dbCopies)

\* the copies the store starts with: a row of theirs that is missing has
\* been deleted
SeededCopyIds == {c \in CopyIds : SeedCopies[c] # NoRow}

\* C27: the upserts never create a row for an entity the user has deleted.
\* A completed updateBookOrder or updateCopiesOrder adds no book row and no
\* copy row to the store; a completed saveCopy does not bring back a copy
\* row that had been deleted.
C27_NoRowForDeleted ==
    [][/\ (/\ last'.step = "served"
           /\ last'.op \in {"updateBookOrder", "updateCopiesOrder"}) =>
            /\ PresentBooks(dbBooks') \subseteq PresentBooks(dbBooks)
            /\ PresentCopies(dbCopies') \subseteq PresentCopies(dbCopies)
       /\ (last'.step = "served" /\ last'.op = "saveCopy") =>
            \A c \in SeededCopyIds :
                dbCopies[c] = NoRow => dbCopies'[c] = NoRow]_vars

-----------------------------------------------------------------------------
(* Add-copy modal, new copy: the price suggestion. handleSuggestPrice is    *)
(* called by the effect that resets the form when the modal opens and by    *)
(* the effect that watches the condition; each call awaits getMarketPrice   *)
(* and writes the market price field when it resolves.                      *)

MaxPending == 4

\* some of VALID_CONDITIONS; 'Good' is the default of the form
Conditions == {"Good", "Like New", "Acceptable"}

\* what getMarketPrice estimates for a condition
Estimate(condition) ==
    CASE condition = "Like New" -> 15
      [] condition = "Good" -> 10
      [] OTHER -> 5

PriceInit ==
    /\ ui = [isOpen |-> FALSE, condition |-> "Good", marketPrice |-> Null,
             isSuggestingPrice |-> FALSE]
    /\ calls = EmptyBag /\ toasts = <<>> /\ events = 0
    /\ last = [step |-> "init"]
    /\ arg = NoValue /\ res = NoValue /\ pc = "price"
    /\ dbBooks = <<>> /\ dbCopies = <<>> /\ ids = NoValue /\ books = <<>>
    /\ isLoading = FALSE /\ searchTerm = <<>> /\ sortOption = "manual"
    /\ showListedOnly = FALSE

PriceFrame ==
    UNCHANGED <<books, isLoading, searchTerm, sortOption, showListedOnly,
                storeVars, events, pureVars>>

\* handleSuggestPrice(condition) up to its await
SuggestCall(condition) ==
    Call("suggestPrice", "getMarketPrice", [condition |-> condition], <<>>)

\* the calls in flight after handleSuggestPrice has been called for each
\* condition of the list, in order
RECURSIVE Suggested(_, _)
Suggested(bag, conditions) ==
    IF conditions = <<>> THEN bag
    ELSE Suggested(bag (+) SetToBag({SuggestCall(Head(conditions))}),
                   Tail(conditions))

\* the modal opens for a new copy. The reset effect: reset({ condition:
\* 'Good', marketPrice: '' }); handleSuggestPrice('Good'). The watch effect
\* of the same commit: handleSuggestPrice(watchedCondition), the condition
\* the form had at that render; and once more with 'Good' when the reset
\* has changed the watched condition.
PriceOpen ==
    /\ pc = "price"
    /\ ~ui.isOpen
    /\ LET asked == IF ui.condition = "Good" THEN <<"Good", "Good">>
                    ELSE <<"Good", ui.condition, "Good">>
       IN  /\ BagCardinality(calls) + Len(asked) <= MaxPending
           /\ calls' = Suggested(calls, asked)
    /\ ui' = [ui EXCEPT !.isOpen = TRUE, !.condition = "Good",
                        !.marketPrice = Null, !.isSuggestingPrice = TRUE]
    /\ last' = [step |-> "open"]
    /\ UNCHANGED toasts /\ PriceFrame

\* the user selects another condition: the watch effect calls
\* handleSuggestPrice(watchedCondition)
SelectCondition(condition) ==
    /\ pc = "price"
    /\ ui.isOpen /\ condition # ui.condition
    /\ BagCardinality(calls) < MaxPending
    /\ calls' = Suggested(calls, <<condition>>)
    /\ ui' = [ui EXCEPT !.condition = condition, !.isSuggestingPrice = TRUE]
    /\ last' = [step |-> "select", condition |-> condition]
    /\ UNCHANGED toasts /\ PriceFrame

\* onClose of the modal; the form keeps its values until the next reset
PriceClose ==
    /\ pc = "price"
    /\ ui.isOpen
    /\ ui' = [ui EXCEPT !.isOpen = FALSE]
    /\ last' = [step |-> "close"]
    /\ UNCHANGED <<calls, toasts>> /\ PriceFrame

\* getMarketPriceFlow answers
ServeMarketPrice ==
    \E c \in Sent("getMarketPrice") :
        /\ pc = "price"
        /\ calls' = Resolve(c, <<Estimate(c.req.condition)>>)
        /\ last' = Served(c)
        /\ UNCHANGED <<ui, toasts>> /\ PriceFrame

\* getMarketPriceFlow throws
MarketPriceError ==
    \E c \in Sent("getMarketPrice") :
        /\ pc = "price"
        /\ calls' = Reject(c)
        /\ last' = [Served(c) EXCEPT !.step = "failed"]
        /\ UNCHANGED <<ui, toasts>> /\ PriceFrame

\* handleSuggestPrice after its await: setValue('marketPrice', ...), or the
\* toast of the catch; finally setIsSuggestingPrice(false)
SuggestPriceDone ==
    \E c \in Settled("getMarketPrice") :
        /\ pc = "price"
        /\ IF c.st = "ok"
           THEN /\ ui' = [ui EXCEPT !.marketPrice = c.data[1],
                                    !.isSuggestingPrice = FALSE]
                /\ toasts' = toasts
           ELSE /\ ui' = [ui EXCEPT !.isSuggestingPrice = FALSE]
                /\ toasts' = ErrorToast("Error Suggesting Price", c)
        /\ calls' = Drop(c)
        /\ last' = [Resumed(c) EXCEPT !.step = "applied"]
        /\ PriceFrame

PriceNext ==
    \/ PriceOpen
    \/ \E condition \in Conditions : SelectCondition(condition)
    \/ PriceClose
    \/ ServeMarketPrice
    \/ MarketPriceError
    \/ SuggestPriceDone

SpecPrice == PriceInit /\ [][PriceNext]_vars

\* C29: once every getMarketPrice request has completed, none of them
\* having failed, the market price field of the open modal holds the
\* estimate for the condition that is selected.
C29_PriceForSelectedCondition ==
    (/\ pc = "price" /\ ui.isOpen /\ calls = EmptyBag /\ toasts = <<>>)
        => ui.marketPrice = Estimate(ui.condition)

\* a notification with this title is raised by the step taken
Raises(title) ==
    /\ toasts' # toasts
    /\ \E i \in DOMAIN toasts' : toasts'[i].title = title

\* C30: 'Copy saved!' is raised only by a step in which a saveCopy of the
\* add-copy modal has succeeded, and 'Book added!' / 'Book updated!' only
\* by the step that ends a handleAddBook / handleUpdateBook whose write has
\* succeeded.
C30_SuccessAfterPersistence ==
    [][/\ Raises("Copy saved!") =>
            \E c \in BagToSet(calls) :
                c.h = "saveCopy" /\ c.op = "saveCopy" /\ c.st = "ok"
                /\ c \notin BagToSet(calls')
       /\ Raises("Book added!") =>
            (last'.step = "resumed" /\ last'.h = "addBook"
             /\ last'.op = "getBooks")
       /\ Raises("Book updated!") =>
            (last'.step = "resumed" /\ last'.h = "updateBook"
             /\ last'.op = "getBooks")]_vars

====
